---------------------------- MODULE Spec2Model ----------------------------
(***************************************************************************)
(* A model of gitmatch (src/src/gitmatch/__init__.py): compile() turns an  *)
(* ordered list of gitignore patterns into a Gitignore ruleset, and        *)
(* Gitignore.match() validates a path and walks its ancestors against the  *)
(* rules.                                                                  *)
(*                                                                         *)
(* A string (str or bytes) is a sequence of one-character strings; the NUL *)
(* character is written NUL.  A translated regular expression is kept as   *)
(* its syntax tree, one node per fragment pattern2regex() emits, and is    *)
(* matched by regular-expression semantics (Ends / fullmatch below).       *)
(* The host is a POSIX system: os.sep is "/" and os.path is posixpath.     *)
(***************************************************************************)
EXTENDS Integers, Sequences, FiniteSets, TLC

(***************************************************************************)
(* Characters                                                              *)
(***************************************************************************)
NUL == "NUL"
TAB == "\t"
LF == "\n"
CR == "\r"
BACKSLASH == "\\"
\* The grave accent, code point 96
GRAVE == "GRAVE"

\* The printable ASCII characters, code points 32 to 126, in order.
ASCII ==
    << " ", "!", "\"", "#", "$", "%", "&", "'", "(", ")", "*", "+", ",", "-",
       ".", "/", "0", "1", "2", "3", "4", "5", "6", "7", "8", "9", ":", ";",
       "<", "=", ">", "?", "@", "A", "B", "C", "D", "E", "F", "G", "H", "I",
       "J", "K", "L", "M", "N", "O", "P", "Q", "R", "S", "T", "U", "V", "W",
       "X", "Y", "Z", "[", "\\", "]", "^", "_", GRAVE, "a", "b", "c", "d", "e",
       "f", "g", "h", "i", "j", "k", "l", "m", "n", "o", "p", "q", "r", "s",
       "t", "u", "v", "w", "x", "y", "z", "{", "|", "}", "~" >>

\* ord(c)
Ord(c) ==
    CASE c = NUL -> 0
      [] c = TAB -> 9
      [] c = LF -> 10
      [] c = CR -> 13
      [] OTHER -> 31 + (CHOOSE i \in 1..Len(ASCII) : ASCII[i] = c)

\* A folding that keeps only the upper case of a letter
CaseVariantsUpper(c) ==
    LET o == Ord(c) IN
    IF o >= 97 /\ o <= 122 THEN {ASCII[o - 32 - 31]} ELSE {c}

\* The ASCII case folding of the (?ai: flag group: both cases of a letter.
CaseVariants(c) ==
    LET o == Ord(c) IN
    IF o >= 65 /\ o <= 90 THEN {c, ASCII[o + 32 - 31]}
    ELSE IF o >= 97 /\ o <= 122 THEN {c, ASCII[o - 32 - 31]}
    ELSE {c}

(***************************************************************************)
(* Python string operations used by the source                             *)
(***************************************************************************)
\* s[a:b] with 0 <= a, b (Python slice, 0-based, b exclusive)
Slice(s, a, b) == IF b > a THEN SubSeq(s, a + 1, IF b > Len(s) THEN Len(s) ELSE b) ELSE <<>>

\* s.startswith(p)
StartsWith(s, p) == Len(s) >= Len(p) /\ SubSeq(s, 1, Len(p)) = p

\* s.endswith(p)
EndsWith(s, p) == Len(s) >= Len(p) /\ SubSeq(s, Len(s) - Len(p) + 1, Len(s)) = p

\* c in s
Contains(s, c) == \E i \in 1..Len(s) : s[i] = c

\* s.replace(a, b) for single characters a, b
Replace(s, a, b) == [i \in 1..Len(s) |-> IF s[i] = a THEN b ELSE s[i]]

\* s.split(sep) for a single character sep: the list of fields
RECURSIVE Split(_, _)
Split(s, sep) ==
    IF ~Contains(s, sep) THEN <<s>>
    ELSE LET i == CHOOSE k \in 1..Len(s) :
                      s[k] = sep /\ \A j \in 1..(k - 1) : s[j] # sep
         IN <<SubSeq(s, 1, i - 1)>> \o Split(SubSeq(s, i + 1, Len(s)), sep)

\* sep.join(parts)
RECURSIVE Join(_, _)
Join(parts, sep) ==
    IF parts = <<>> THEN <<>>
    ELSE IF Len(parts) = 1 THEN parts[1]
    ELSE parts[1] \o <<sep>> \o Join(Tail(parts), sep)

\* s.rfind(c) + 1: the 1-based index of the last c in s, 0 when there is none
RFind1(s, c) ==
    IF Contains(s, c)
    THEN CHOOSE k \in 1..Len(s) : s[k] = c /\ \A j \in (k + 1)..Len(s) : s[j] # c
    ELSE 0

\* s.rstrip(c) for a single character c
RECURSIVE RStrip(_, _)
RStrip(s, c) ==
    IF s # <<>> /\ s[Len(s)] = c THEN RStrip(SubSeq(s, 1, Len(s) - 1), c) ELSE s

\* posixpath.isabs(s)
isabs(s) == StartsWith(s, <<"/">>)

\* posixpath.dirname(p)
dirname(p) ==
    LET i == RFind1(p, "/")
        head == SubSeq(p, 1, i)
    IN IF head # <<>> /\ \E k \in 1..Len(head) : head[k] # "/"
       THEN RStrip(head, "/")
       ELSE head

\* The loop of posixpath.normpath over the components of the path
RECURSIVE NormComps(_, _, _)
NormComps(comps, new_comps, initial_slashes) ==
    IF comps = <<>> THEN new_comps
    ELSE LET comp == Head(comps)
             n == Len(new_comps)
         IN IF comp = <<>> \/ comp = <<".">>
            THEN NormComps(Tail(comps), new_comps, initial_slashes)
            ELSE IF comp # <<".", ".">>
                    \/ (initial_slashes = 0 /\ n = 0)
                    \/ (n > 0 /\ new_comps[n] = <<".", ".">>)
            THEN NormComps(Tail(comps), Append(new_comps, comp), initial_slashes)
            ELSE IF n > 0
            THEN NormComps(Tail(comps), SubSeq(new_comps, 1, n - 1), initial_slashes)
            ELSE NormComps(Tail(comps), new_comps, initial_slashes)

\* posixpath.normpath(path)
normpath(path) ==
    IF path = <<>> THEN <<".">>
    ELSE LET initial_slashes ==
                 IF ~StartsWith(path, <<"/">>) THEN 0
                 ELSE IF StartsWith(path, <<"/", "/">>)
                         /\ ~StartsWith(path, <<"/", "/", "/">>) THEN 2
                 ELSE 1
             joined == Join(NormComps(Split(path, "/"), <<>>, initial_slashes), "/")
             res == [i \in 1..initial_slashes |-> "/"] \o joined
         IN IF res = <<>> THEN <<".">> ELSE res

\* Only a trailing line feed removed
chompNewline(s) ==
    IF s # <<>> /\ Ord(s[Len(s)]) = 10 THEN SubSeq(s, 1, Len(s) - 1) ELSE s

\* Every trailing line feed and carriage return removed
RECURSIVE chompAll(_)
chompAll(s) ==
    IF s # <<>> /\ Ord(s[Len(s)]) \in {10, 13} THEN chompAll(SubSeq(s, 1, Len(s) - 1)) ELSE s

(***************************************************************************)
(* Small utilities                                                         *)
(***************************************************************************)
\* chomp(s): drop one trailing "\n", then one trailing "\r"
chomp(s) ==
    LET s1 == IF s # <<>> /\ Ord(s[Len(s)]) = 10 THEN SubSeq(s, 1, Len(s) - 1) ELSE s
    IN IF s1 # <<>> /\ Ord(s1[Len(s1)]) = 13 THEN SubSeq(s1, 1, Len(s1) - 1) ELSE s1

IsBlank(c) == c = " " \/ c = TAB

\* The number of backslashes t begins with
RECURSIVE LeadingBackslashes(_)
LeadingBackslashes(t) ==
    IF t # <<>> /\ Head(t) = BACKSLASH THEN 1 + LeadingBackslashes(Tail(t)) ELSE 0

\* Whether TRIM_RGX matches at 0-based position i of s: the character before i
\* is not a backslash, and s[i:] is pairs of backslashes, then at most one
\* escaped blank, then blanks up to the end of s (\Z).
TrimMatchAt(s, i) ==
    LET t == SubSeq(s, i + 1, Len(s))
        nb == LeadingBackslashes(t)
        klen == IF nb % 2 = 0 THEN nb ELSE nb + 1
    IN /\ ~(i > 0 /\ s[i] = BACKSLASH)
       /\ klen <= Len(t)
       /\ (nb % 2 = 1 => IsBlank(t[klen]))
       /\ \A k \in (klen + 1)..Len(t) : IsBlank(t[k])

\* Nothing kept of the match
TrimKeepNothing(s, i) == <<>>

\* The group <keep> of that match: (?:\\\\)*(\\[ \t])?
TrimKeep(s, i) ==
    LET t == SubSeq(s, i + 1, Len(s))
        nb == LeadingBackslashes(t)
    IN SubSeq(t, 1, IF nb % 2 = 0 THEN nb ELSE nb + 1)

\* Only the last blank removed
trim_last_blank(s) ==
    IF s # <<>> /\ IsBlank(s[Len(s)]) THEN SubSeq(s, 1, Len(s) - 1) ELSE s

\* trim_trailing_spaces(s): TRIM_RGX.sub(keep, s) replaces the leftmost match,
\* which runs to the end of s, by its group <keep>
trim_trailing_spaces(s) ==
    IF \A i \in 0..Len(s) : ~TrimMatchAt(s, i) THEN s
    ELSE LET i == CHOOSE k \in 0..Len(s) :
                      /\ TrimMatchAt(s, k)
                      /\ \A j \in 0..(k - 1) : ~TrimMatchAt(s, j)
         IN SubSeq(s, 1, i) \o TrimKeep(s, i)

(***************************************************************************)
(* Regular expressions: the syntax tree of the dialect pattern2regex emits *)
(***************************************************************************)
\* A literal character (re.escape(c))
Lit(c) == [op |-> "lit", c |-> c]
\* [^/\0]
NotSlashNul == [op |-> "notin", chars |-> {"/", NUL}]
\* (?![/\0])
NotAheadSlashNul == [op |-> "notahead", chars |-> {"/", NUL}]
\* Concatenation, alternation a|b, a*, a+, a?
Cat(args) == [op |-> "cat", args |-> args]
Alt(args) == [op |-> "alt", args |-> args]
Star(a) == [op |-> "star", arg |-> a]
Plus(a) == [op |-> "cat", args |-> <<a, [op |-> "star", arg |-> a]>>]
Opt(a) == [op |-> "alt", args |-> <<a, [op |-> "cat", args |-> <<>>]>>]
\* A character class [...] or [^...] of items
Class(neg, items) == [op |-> "class", neg |-> neg, items |-> items]
\* The items of a class: a range of code points lo-hi, or one character
Range(lo, hi) == [lo |-> lo, hi |-> hi]
Single(c) == [lo |-> Ord(c), hi |-> Ord(c)]

\* Whether the class items hold the character c; under the flag i a character
\* is in the class when one of its two cases is.
ClassHas(items, c, ic) ==
    \E x \in (IF ic THEN CaseVariants(c) ELSE {c}) :
        \E k \in 1..Len(items) : items[k].lo <= Ord(x) /\ Ord(x) <= items[k].hi

\* Ends(n, s, j, ic): the positions where a match of node n that starts at
\* position j of s (j characters consumed) can end.
RECURSIVE Ends(_, _, _, _)
RECURSIVE EndsCat(_, _, _, _, _)
RECURSIVE EndsStar(_, _, _, _, _)
Ends(n, s, j, ic) ==
    CASE n.op = "lit" ->
           IF j < Len(s) /\ (s[j + 1] = n.c \/ (ic /\ n.c \in CaseVariants(s[j + 1])))
           THEN {j + 1} ELSE {}
      [] n.op = "notin" ->
           IF j < Len(s) /\ s[j + 1] \notin n.chars THEN {j + 1} ELSE {}
      [] n.op = "notahead" ->
           IF j < Len(s) /\ s[j + 1] \in n.chars THEN {} ELSE {j}
      [] n.op = "class" ->
           IF j < Len(s) /\ (ClassHas(n.items, s[j + 1], ic) # n.neg)
           THEN {j + 1} ELSE {}
      [] n.op = "cat" -> EndsCat(n.args, 1, s, {j}, ic)
      [] n.op = "alt" -> UNION {Ends(n.args[k], s, j, ic) : k \in 1..Len(n.args)}
      [] n.op = "star" -> EndsStar(n.arg, s, {j}, {j}, ic)

\* The nodes args[k..] in sequence, started at any position of from
EndsCat(args, k, s, from, ic) ==
    IF k > Len(args) \/ from = {} THEN from
    ELSE EndsCat(args, k + 1, s, UNION {Ends(args[k], s, j, ic) : j \in from}, ic)

\* Zero or more repetitions of a: the positions reached so far are acc, those
\* not yet extended are frontier
EndsStar(a, s, frontier, acc, ic) ==
    LET new == UNION {Ends(a, s, j, ic) : j \in frontier} \ acc
    IN IF new = {} THEN acc ELSE EndsStar(a, s, new, acc \cup new, ic)

\* re.compile(regex).fullmatch(s) is not None, for a regex "(?a:" body ")" or
\* "(?ai:" body ")"
fullmatch(regex, s) == Len(s) \in EndsCat(regex.body, 1, s, {0}, regex.flags = "ai")

(***************************************************************************)
(* PARSER_STRS: the fragments and the two tokenizers                       *)
(***************************************************************************)
\* unanchored_start = (?:[^/\0]+/)*
unanchored_start == Star(Cat(<<Plus(NotSlashNul), Lit("/")>>))
\* A faulty trailing /** that is also satisfied by nothing
slash_globstarOrNothing == Star(Cat(<<Lit("/"), Plus(NotSlashNul)>>))

\* A star that, as in a shell, takes no dot
starNoDot == Star([op |-> "notin", chars |-> {"/", "NUL", "."}])

\* slash_globstar = (?:(?:/[^/\0]+)+/?|/)
slash_globstar ==
    Alt(<<Cat(<<Plus(Cat(<<Lit("/"), Plus(NotSlashNul)>>)), Opt(Lit("/"))>>), Lit("/")>>)
\* A faulty interior /**/ that stands for exactly one directory
slash_one_dir_slash == Cat(<<Lit("/"), Plus(NotSlashNul), Lit("/")>>)

\* slash_globstar_slash = /(?:[^/\0]+/)*
slash_globstar_slash == Cat(<<Lit("/"), Star(Cat(<<Plus(NotSlashNul), Lit("/")>>))>>)
\* globstar_slash = (?:[^/\0]*/)?(?:[^/\0]+/)*
globstar_slash ==
    Cat(<<Opt(Cat(<<Star(NotSlashNul), Lit("/")>>)),
          Star(Cat(<<Plus(NotSlashNul), Lit("/")>>))>>)
\* qm = [^/\0]
qm == NotSlashNul
\* star = [^/\0]*
star == Star(NotSlashNul)
\* A faulty opening of a class, without the lookahead that excludes / and NUL
openrangeBare(neg, items) == Class(neg, items)

\* openrange = (?![/\0])[ followed by the class body and its closing bracket
openrange(neg, items) == Cat(<<NotAheadSlashNul, Class(neg, items)>>)

\* posix_classes: the names, as strings
PosixNames ==
    [alpha |-> <<"a", "l", "p", "h", "a">>, alnum |-> <<"a", "l", "n", "u", "m">>,
     blank |-> <<"b", "l", "a", "n", "k">>, cntrl |-> <<"c", "n", "t", "r", "l">>,
     digit |-> <<"d", "i", "g", "i", "t">>, graph |-> <<"g", "r", "a", "p", "h">>,
     lower |-> <<"l", "o", "w", "e", "r">>, print |-> <<"p", "r", "i", "n", "t">>,
     punct |-> <<"p", "u", "n", "c", "t">>, space |-> <<"s", "p", "a", "c", "e">>,
     upper |-> <<"u", "p", "p", "e", "r">>, xdigit |-> <<"x", "d", "i", "g", "i", "t">>]

\* posix_classes: the class body of each name, as code point ranges
PosixBodies ==
    [alpha |-> <<Range(65, 90), Range(97, 122)>>,                \* A-Za-z
     alnum |-> <<Range(65, 90), Range(97, 122), Range(48, 57)>>, \* A-Za-z0-9
     blank |-> <<Range(32, 32), Range(9, 9)>>,                   \* space, \t
     cntrl |-> <<Range(0, 31), Range(127, 127)>>,                \* \0-\x1F\x7F
     digit |-> <<Range(48, 57)>>,                                \* 0-9
     graph |-> <<Range(33, 126)>>,                               \* !-\~
     lower |-> <<Range(97, 122)>>,                               \* a-z
     print |-> <<Range(32, 126)>>,                               \* space-\~
     punct |-> <<Range(33, 47), Range(58, 64), Range(91, 96),
                 Range(123, 126)>>,                          \* !-/:-@[-GRAVE{-\~
     space |-> <<Range(9, 9), Range(10, 10), Range(13, 13),
                 Range(32, 32)>>,                                \* \t\n\r space
     upper |-> <<Range(65, 90)>>,                                \* A-Z
     xdigit |-> <<Range(48, 57), Range(65, 70), Range(97, 102)>>] \* 0-9A-Fa-f

\* name in posix_classes
IsPosixClass(name) == \E k \in DOMAIN PosixNames : PosixNames[k] = name

\* posix_classes[name]
posix_classes(name) == PosixBodies[CHOOSE k \in DOMAIN PosixNames : PosixNames[k] = name]

\* The character at 0-based position pos of p, or "END" past the end
At(p, pos) == IF pos < Len(p) THEN p[pos + 1] ELSE "END"

\* How many copies of unit stand one after another in p from position pos
RECURSIVE CountReps(_, _, _)
CountReps(p, pos, unit) ==
    IF pos + Len(unit) <= Len(p) /\ SubSeq(p, pos + 1, pos + Len(unit)) = unit
    THEN 1 + CountReps(p, pos + Len(unit), unit)
    ELSE 0

\* leading_globstar_slash.match(pattern): the end of \*\*/(?:\*\*/)* at the
\* start of the pattern, 0 when it does not match
leading_globstar_slash(p) == 3 * CountReps(p, 0, <<"*", "*", "/">>)

\* is_anchored.search(pattern): ^/|/. (the dot matches no line feed)
is_anchored(p) ==
    \/ At(p, 0) = "/"
    \/ \E i \in 1..(Len(p) - 1) : p[i] = "/" /\ p[i + 1] # LF

\* close_bracket_in_range.match(pattern, pos): \](?!-[^\]])
close_bracket_in_range(p, pos) ==
    /\ At(p, pos) = "]"
    /\ ~(At(p, pos + 1) = "-" /\ pos + 2 < Len(p) /\ At(p, pos + 2) # "]")

\* parser.match(pattern, pos): the first alternative that matches, as the name
\* of its group and the length matched; "nomatch" when none does.
parser(p, pos) ==
    LET c == At(p, pos)
        n == CountReps(p, pos, <<"/", "*", "*">>)
        m == CountReps(p, pos, <<"*", "*", "/">>)
    IN IF SubSeq(p, pos + 1, Len(p)) = <<"/", "*", "*">>
       THEN [group |-> "slash_globstar", len |-> 3]
       ELSE IF n >= 1 /\ At(p, pos + 3 * n) = "/"
       THEN [group |-> "slash_globstar_slash", len |-> 3 * n + 1]
       ELSE IF n >= 2
       THEN [group |-> "slash_globstar_slash", len |-> 3 * (n - 1) + 1]
       ELSE IF m >= 1 THEN [group |-> "globstar_slash", len |-> 3 * m]
       ELSE IF c = "?" THEN [group |-> "qm", len |-> 1]
       ELSE IF c = "*"
       THEN [group |-> "star", len |-> IF At(p, pos + 1) = "*" THEN 2 ELSE 1]
       ELSE IF c = "[" THEN [group |-> "openrange", len |-> 1]
       ELSE IF c = BACKSLASH /\ pos + 1 < Len(p) /\ At(p, pos + 1) # NUL
       THEN [group |-> "char", len |-> 2]
       ELSE IF c # "END" /\ c # NUL /\ c # BACKSLASH
       THEN [group |-> "char", len |-> 1]
       ELSE [group |-> "nomatch", len |-> 0]

\* The length of a class member that may also be a NUL
CharLenOrNul(p, pos, closing) ==
    LET c == At(p, pos)
    IN IF c = BACKSLASH
       THEN (IF pos + 1 < Len(p) THEN 2 ELSE 0)
       ELSE IF c = "END" \/ (closing /\ c = "]") THEN 0
       ELSE 1

\* The length of \x5C[^\0]|[^\0\x5C] (closing = FALSE) or of
\* \x5C[^\0]|[^\0\x5C\x5D] (closing = TRUE) at position pos, 0 when it does
\* not match
CharLen(p, pos, closing) ==
    LET c == At(p, pos)
    IN IF c = BACKSLASH
       THEN (IF pos + 1 < Len(p) /\ At(p, pos + 1) # NUL THEN 2 ELSE 0)
       ELSE IF c = "END" \/ c = NUL \/ (closing /\ c = "]") THEN 0
       ELSE 1

\* The 0-based position of the first "]" of p at or after pos, Len(p) if none
RECURSIVE FirstClose(_, _)
FirstClose(p, pos) ==
    IF pos >= Len(p) \/ At(p, pos) = "]" THEN pos ELSE FirstClose(p, pos + 1)

\* range_parser.match(pattern, pos): the first alternative that matches.
range_parser(p, pos) ==
    LET llen == CharLen(p, pos, FALSE)
        rlen == CharLen(p, pos + llen + 1, TRUE)
        q == FirstClose(p, pos + 2)
        clen == CharLen(p, pos, TRUE)
    IN IF llen > 0 /\ At(p, pos + llen) = "-" /\ rlen > 0
       THEN [group |-> "left", len |-> llen + 1 + rlen,
             left |-> At(p, pos + llen - 1), right |-> At(p, pos + llen + rlen)]
       ELSE IF At(p, pos) = "[" /\ At(p, pos + 1) = ":" /\ q < Len(p)
               /\ q - 1 >= pos + 2 /\ At(p, q - 1) = ":"
       THEN [group |-> "posix_class", len |-> q + 1 - pos,
             name |-> SubSeq(p, pos + 3, q - 1)]
       ELSE IF clen > 0
       THEN [group |-> "char", len |-> clen, c |-> At(p, pos + clen - 1)]
       ELSE IF At(p, pos) = "]" THEN [group |-> "end", len |-> 1]
       ELSE [group |-> "nomatch", len |-> 0]

\* The inner loop of pattern2regex over the body of a character class, from
\* position pos with the items emitted so far: [ok, pos, items], ok = FALSE
\* for InvalidPatternError.  ParseClassOn is one iteration, on the match m of
\* range_parser at pos.
RECURSIVE ParseClass(_, _, _)
ParseClassOn(p, pos, items, m) ==
    CASE m.group = "nomatch" -> [ok |-> FALSE, pos |-> pos, items |-> items]
      [] m.group = "left" ->
           IF Ord(m.left) > Ord(m.right)
           THEN [ok |-> FALSE, pos |-> pos + m.len, items |-> items]
           ELSE ParseClass(p, pos + m.len, Append(items, Range(Ord(m.left), Ord(m.right))))
      [] m.group = "posix_class" ->
           IF ~IsPosixClass(m.name)
           THEN [ok |-> FALSE, pos |-> pos + m.len, items |-> items]
           ELSE ParseClass(p, pos + m.len, items \o posix_classes(m.name))
      [] m.group = "char" -> ParseClass(p, pos + m.len, Append(items, Single(m.c)))
      [] m.group = "end" -> [ok |-> TRUE, pos |-> pos + m.len, items |-> items]

ParseClass(p, pos, items) == ParseClassOn(p, pos, items, range_parser(p, pos))

\* The start of a character class, pos being just after its "[": a "^" or "!"
\* negates it, and a "]" that close_bracket_in_range matches is its first item
ClassNegated(p, pos) == At(p, pos) = "^" \/ At(p, pos) = "!"
ClassLead(p, pos) == close_bracket_in_range(p, pos)

\* The main loop of pattern2regex from position pos, the fragments emitted so
\* far being body: [ok, body], ok = FALSE for InvalidPatternError.  TokenizeOn
\* is one iteration, on the match m of parser at pos; TokenizeClass is the
\* branch of a character class, neg telling whether it is negated and cls
\* being the outcome of the inner loop.
RECURSIVE Tokenize(_, _, _)
TokenizeClass(p, body, neg, cls) ==
    IF ~cls.ok THEN [ok |-> FALSE, body |-> body]
    ELSE Tokenize(p, cls.pos, Append(body, openrange(neg, cls.items)))

TokenizeOpen(p, pos, body, neg) ==
    TokenizeClass(p, body, neg,
                  IF ClassLead(p, IF neg THEN pos + 1 ELSE pos)
                  THEN ParseClass(p, (IF neg THEN pos + 1 ELSE pos) + 1, <<Single("]")>>)
                  ELSE ParseClass(p, IF neg THEN pos + 1 ELSE pos, <<>>))

TokenizeOn(p, pos, body, m) ==
    CASE m.group = "nomatch" -> [ok |-> FALSE, body |-> body]
      [] m.group = "slash_globstar" ->
           Tokenize(p, pos + m.len, Append(body, slash_globstar))
      [] m.group = "slash_globstar_slash" ->
           Tokenize(p, pos + m.len, Append(body, slash_globstar_slash))
      [] m.group = "globstar_slash" ->
           Tokenize(p, pos + m.len, Append(body, globstar_slash))
      [] m.group = "qm" -> Tokenize(p, pos + m.len, Append(body, qm))
      [] m.group = "star" -> Tokenize(p, pos + m.len, Append(body, star))
      [] m.group = "openrange" ->
           TokenizeOpen(p, pos + m.len, body, ClassNegated(p, pos + m.len))
      [] m.group = "char" ->
           Tokenize(p, pos + m.len, Append(body, Lit(At(p, pos + m.len - 1))))

Tokenize(p, pos, body) ==
    IF pos >= Len(p) THEN [ok |-> TRUE, body |-> body]
    ELSE TokenizeOn(p, pos, body, parser(p, pos))

\* The outcome carrying the trimmed pattern in place of the original one
TranslationOfSource(orig, source, negative, dir_only, ignorecase, r) ==
    IF ~r.ok THEN [kind |-> "InvalidPatternError", pattern |-> source]
    ELSE [kind |-> "Regex",
          pattern |-> source,
          regex |-> [flags |-> IF ignorecase THEN "ai" ELSE "a", body |-> r.body],
          negative |-> negative,
          dir_only |-> dir_only,
          ignorecase |-> ignorecase]

\* The outcome carrying the pattern without its "!"
TranslationUnbanged(orig, source, negative, dir_only, ignorecase, r) ==
    IF ~r.ok THEN [kind |-> "InvalidPatternError", pattern |-> orig]
    ELSE [kind |-> "Regex",
          pattern |-> IF negative THEN Tail(source) ELSE source,
          regex |-> [flags |-> IF ignorecase THEN "ai" ELSE "a", body |-> r.body],
          negative |-> negative,
          dir_only |-> dir_only,
          ignorecase |-> ignorecase]

(***************************************************************************)
(* pattern2regex, Regex.compile, Pattern.match                             *)
(***************************************************************************)
\* The Regex or the error pattern2regex ends with, r being the outcome of the
\* main loop
Translation(orig, source, negative, dir_only, ignorecase, r) ==
    IF ~r.ok THEN [kind |-> "InvalidPatternError", pattern |-> orig]
    ELSE [kind |-> "Regex",
          pattern |-> source,
          regex |-> [flags |-> IF ignorecase THEN "ai" ELSE "a", body |-> r.body],
          negative |-> negative,
          dir_only |-> dir_only,
          ignorecase |-> ignorecase]

\* pattern2regex from "pos = 0" on, pattern being stripped of its "!" and of
\* its trailing "/": the anchoring, then the main loop
TranslateBody(orig, source, negative, dir_only, ignorecase, pattern) ==
    IF pattern = <<>> THEN [kind |-> "None"]
    ELSE Translation(orig, source, negative, dir_only, ignorecase,
             Tokenize(pattern,
                      IF leading_globstar_slash(pattern) > 0
                      THEN leading_globstar_slash(pattern)
                      ELSE IF StartsWith(pattern, <<"/">>) THEN 1 ELSE 0,
                      IF leading_globstar_slash(pattern) > 0 \/ ~is_anchored(pattern)
                      THEN <<unanchored_start>> ELSE <<>>))

\* The trailing "/" left in the pattern
TranslateDirKept(orig, source, negative, ignorecase, pattern) ==
    TranslateBody(orig, source, negative, FALSE, ignorecase, pattern)

\* pattern2regex once the "!" is stripped: the trailing "/" makes it dir_only
TranslateDir(orig, source, negative, ignorecase, pattern) ==
    IF EndsWith(pattern, <<"/">>)
    THEN TranslateBody(orig, source, negative, TRUE, ignorecase,
                       SubSeq(pattern, 1, Len(pattern) - 1))
    ELSE TranslateBody(orig, source, negative, FALSE, ignorecase, pattern)

\* The "#" taken for an ordinary character
TranslateTrimmedAnyStart(orig, source, ignorecase) ==
    IF StartsWith(source, <<"!">>)
    THEN (IF Tail(source) = <<>> THEN [kind |-> "None"]
          ELSE TranslateDir(orig, source, TRUE, ignorecase, Tail(source)))
    ELSE TranslateDir(orig, source, FALSE, ignorecase, source)

\* pattern2regex once the trailing spaces are trimmed: the comment and the "!"
TranslateTrimmed(orig, source, ignorecase) ==
    IF StartsWith(source, <<"#">>) THEN [kind |-> "None"]
    ELSE IF StartsWith(source, <<"!">>)
    THEN (IF Tail(source) = <<>> THEN [kind |-> "None"]
          ELSE TranslateDir(orig, source, TRUE, ignorecase, Tail(source)))
    ELSE TranslateDir(orig, source, FALSE, ignorecase, source)

\* pattern2regex(pattern, ignorecase): [kind |-> "None"], or
\* [kind |-> "InvalidPatternError", pattern] or a Regex
pattern2regex(pattern, ignorecase) ==
    TranslateTrimmed(pattern, trim_trailing_spaces(pattern), ignorecase)

\* Regex.compile(): the Pattern with the same fields, its regex compiled
RegexCompile(regex) ==
    [pattern |-> regex.pattern, regex |-> regex.regex, negative |-> regex.negative,
     dir_only |-> regex.dir_only, ignorecase |-> regex.ignorecase]

\* A faulty Pattern.match that forgets dir_only
PatternMatchAnyKind(pat, p, is_dir) == fullmatch(pat.regex, p)

\* Pattern.match(path, is_dir)
PatternMatch(pat, p, is_dir) ==
    IF pat.dir_only /\ ~is_dir THEN FALSE ELSE fullmatch(pat.regex, p)

(***************************************************************************)
(* Bounds and input domains                                                *)
(***************************************************************************)
\* The longest list of patterns handed to compile
MaxRules == 2
\* The deepest path handed to match, in segments
MaxDepth == 3
\* pathway() is followed for at most this many iterations of its loop
MaxPathway == 5
\* The longest generated pattern, in characters
MaxPatLen == 4
\* The longest generated path text, in characters
MaxPathLen == 4
\* Longest generated path of a pair of calls
MaxTwiceLen == 3
\* Longest generated pattern of a direct call of pattern2regex
MaxCallLen == 3
\* Longest generated argument of trim_trailing_spaces and of chomp
MaxStrLen == 5

foo == <<"f", "o", "o">>
bar == <<"b", "a", "r">>
quux == <<"q", "u", "u", "x">>
gnusto == <<"g", "n", "u", "s", "t", "o">>
baz == <<"b", "a", "z">>
cleesh == <<"c", "l", "e", "e", "s", "h">>
foo_txt == foo \o <<".", "t", "x", "t">>
star_txt == <<"*", ".", "t", "x", "t">>
Bang(q) == <<"!">> \o q
Slash(q) == <<"/">> \o q
Dir(q) == q \o <<"/">>
Under(d, q) == d \o <<"/">> \o q

\* The elements of the sequence s
Elems(s) == {s[i] : i \in 1..Len(s)}

\* All sequences over S of length 0..n
RECURSIVE SeqsUpTo(_, _)
SeqsUpTo(S, n) ==
    IF n = 0 THEN {<<>>}
    ELSE LET shorter == SeqsUpTo(S, n - 1)
         IN shorter \cup {Append(q, x) : q \in {r \in shorter : Len(r) = n - 1}, x \in S}

\* The relative paths of 1..n segments over the names segs
RECURSIVE PathsOver(_, _)
PathsOver(segs, n) ==
    IF n = 1 THEN segs
    ELSE LET shorter == PathsOver(segs, n - 1)
         IN shorter \cup {Under(d, q) : d \in shorter, q \in segs}

\* A path argument of match: a str, or a pathlib object that os.fspath()
\* turns into text
StrPath(text) == [kind |-> "str", text |-> text]
WinPath(text) == [kind |-> "PureWindowsPath", text |-> text]
NoPath == [kind |-> "none", text |-> <<>>]

\* The paths q as files and as directories named with a trailing slash
WithDirs(ps) == {StrPath(q) : q \in ps} \cup {StrPath(Dir(q)) : q \in ps}

\* ---- Spec: rulesets of literal, negated, dir-only and anchored rules ----
\* The patterns the rulesets of Spec are made of
PatternPool ==
    {foo, Bang(foo), Dir(foo), bar, Bang(bar), Slash(foo), Bang(Slash(foo)),
     Under(foo, bar), <<"*">>, <<"[", "a">>}

\* git's layered negation example: /*, !/foo, /foo/*, !/foo/bar
Layered ==
    << <<"/", "*">>, Bang(Slash(foo)), Slash(Under(foo, <<"*">>)), Bang(Slash(Under(foo, bar))) >>

\* Rulesets of the test suite: the order of negation, an invalid pattern
\* before a valid one, an empty pattern, a comment
ExampleLists ==
    {Layered,
     <<<<>>, foo>>,
     <<star_txt, Bang(foo_txt)>>,
     <<Bang(foo_txt), star_txt>>,
     <<foo \o <<BACKSLASH>>, bar>>,
     <<Dir(foo) \o <<LF>>, <<"#", "x">>, bar \o <<" ">> >>}

\* The lists of patterns compile is called with in Spec
PatternLists == SeqsUpTo(PatternPool, MaxRules) \cup ExampleLists

\* The paths match is called with in Spec: files and directories below foo
\* and bar, and the paths of the examples
PathInputs ==
    WithDirs(PathsOver({foo, bar}, MaxDepth)
             \cup {quux, Under(foo, quux), Under(Under(foo, quux), gnusto),
                   Under(quux, Under(foo, bar)), Under(Under(bar, foo), quux), foo_txt})

\* ---- SpecGlob: one rule made of wildcards, slashes and a letter ----
GlobAlphabet == {"a", "/", "*", "?"}
\* Patterns with a character class, a longer globstar, and a line feed
GlobExtra ==
    {<<"[", "^", "a", "]">>, <<"[", "!", "a", "]">>, <<"[", "/", "]">>,
     <<"[", BACKSLASH, "/", "]">>, <<"[", "a", "/", "]">>,
     <<"[", "[", ":", "p", "u", "n", "c", "t", ":", "]", "]">>,
     <<"[", "^", "[", ":", "p", "u", "n", "c", "t", ":", "]", "]">>,
     <<"a", "[", "^", "a", "]", "b">>, <<"a", "[", "/", "]", "b">>,
     <<"a", "[", "^", "[", ":", "a", "l", "p", "h", "a", ":", "]", "]", "b">>,
     <<"a", "?", "b">>, <<"a", "*", "b">>, <<"a", "*", "*", "b">>, <<"b">>,
     <<"a", "/", "*", "*", "/", "*", "*">>, <<"/", "a", "/", "*", "*">>,
     <<"a", "/", "b", "/", "*", "*">>,
     <<"a", "/", LF>>, <<"a", "/", LF, "b">>}
GlobPatterns == (SeqsUpTo(GlobAlphabet, MaxPatLen) \ {<<>>}) \cup GlobExtra
GlobLists == {<<q>> : q \in GlobPatterns}
\* The paths match is called with in SpecGlob
GlobInputs ==
    WithDirs(PathsOver({<<"a">>, <<"a", "b">>}, MaxDepth)
             \cup {<<"b">>, <<"a", "/", "b">>, <<"b", "/", "a">>, <<"a", "/", "b", "/", "a">>,
                   <<"a", "a", "b">>, <<"a", ".", "b">>, <<"a", "/", LF>>,
                   <<"b", "/", "a", "/", LF>>, <<"a", "/", LF, "b">>,
                   <<"b", "/", "a", "/", LF, "b">>})

\* ---- SpecPath: every short text as the path ----
PathAlphabet == {"a", "/", ".", NUL}
\* The texts PureWindowsPath objects turn into: backslash-separated, without
\* a doubled or trailing backslash and without a "." segment
WinTexts ==
    {t \in SeqsUpTo({"a", BACKSLASH, "."}, MaxPathLen) :
        /\ t # <<>>
        /\ (t = <<BACKSLASH>> \/ ~EndsWith(t, <<BACKSLASH>>))
        /\ \A i \in 1..(Len(t) - 1) : ~(t[i] = BACKSLASH /\ t[i + 1] = BACKSLASH)
        /\ (t = <<".">> \/ \A s \in Elems(Split(t, BACKSLASH)) : s # <<".">>)}
PathTexts ==
    {StrPath(t) : t \in SeqsUpTo(PathAlphabet, MaxPathLen)}
    \cup {StrPath(t) : t \in {Under(foo, <<".", ".">>), Under(<<".">>, foo),
                             Under(<<".", ".">>, foo), Under(foo, bar), Dir(Under(foo, bar)),
                             Under(foo, Under(bar, Under(<<"b", "a", "z">>, quux))),
                             <<"a", LF, "b">>, <<" ">>, <<"a", "/", LF>>}}
    \cup {WinPath(t) : t \in WinTexts}
    \cup {WinPath(<<BACKSLASH>> \o foo \o <<BACKSLASH>> \o bar),
          WinPath(foo \o <<BACKSLASH>> \o bar)}
PathLists ==
    {<<>>, << <<"*">> >>, <<foo>>, <<Bang(bar), foo>>,
     << <<".">> >>, << <<".", "*">> >>, << <<".", "/">> >>, << <<"*", "/">> >>,
     << <<"[", "[", ":", "p", "u", "n", "c", "t", ":", "]", "]">> >>}

\* Paths of a pair of calls: the same text with and without a trailing slash,
\* valid and invalid ones
TwiceTexts ==
    SeqsUpTo({"a", "/"}, MaxTwiceLen)
    \cup {t \o s : t \in {<<".">>, <<".", ".">>, <<"a", "/", ".">>, <<NUL>>,
                            <<"a", "/", "a", "/", "a">>, <<".", "a">>,
                            <<"a", "/", ".", ".">>, <<"a", "/", "a", "/", ".">>,
                            <<"a", "/", ".", "a">>, <<"a", "/", "a", NUL>>},
                   s \in {<<>>, <<"/">>}}
TwiceInputs == {StrPath(t) : t \in TwiceTexts}

\* Patterns pattern2regex is called with directly: every short text over the
\* characters with a meaning of their own, and longer ones built around a
\* character class
PatternAlphabet == {"a", " ", "#", "!", "/", BACKSLASH, "[", "]", NUL}
Before == {<<>>, <<"a">>, <<"!">>, <<"#">>}
After == {<<>>, <<"a">>, <<"/">>, <<" ">>}
Negation == {<<>>, <<"!">>, <<"^">>}
\* pre [ neg body ] post
Bracketed(pre, neg, body, post) == pre \o <<"[">> \o neg \o body \o <<"]">> \o post
\* lo-hi
Dash(lo, hi) == <<lo, "-", hi>>
RangeEnds == {"a", "b", "z"}
\* Patterns with a class holding the range lo-hi, possibly after other items
RangePatterns(lo, hi) ==
    {Bracketed(pre, neg, items \o Dash(lo, hi) \o more, post) :
        pre \in Before, neg \in Negation, items \in {<<>>, <<"c">>, Dash("a", "b")},
        more \in {<<>>, <<"c">>}, post \in After}
\* [:name:]
Colons(name) == <<"[", ":">> \o name \o <<":", "]">>
ClassNames ==
    {PosixNames.alpha, PosixNames.digit, PosixNames.xdigit, PosixNames.upper,
     <<"X", "D", "I", "G", "I", "T">>, <<"g", "l", "a", "r", "c", "h">>,
     <<"A", "l", "p", "h", "a">>, <<>>, <<":">>, <<"a">>}
\* Patterns with a class holding the POSIX class [:name:]
PosixPatterns(name) ==
    {Bracketed(pre, neg, items \o Colons(name) \o more, post) :
        pre \in Before, neg \in Negation, items \in {<<>>, <<"c">>},
        more \in {<<>>, <<"c">>}, post \in After}
\* Patterns of the documentation and of the tests
UtilExtra ==
    {<<" ", "#", "c", "o", "m", "m", "e", "n", "t">>,
     <<BACKSLASH, "#", "c", "o", "m", "m", "e", "n", "t">>,
     <<"#", "c", "o", "m", "m", "e", "n", "t">>,
     <<BACKSLASH, "!", "i", "m", "p", "o", "r", "t", "a", "n", "t">>,
     foo \o <<BACKSLASH, "/">>, foo \o <<BACKSLASH, "/">> \o bar,
     foo \o <<BACKSLASH, "/", " ">>, foo \o <<BACKSLASH, "/", "/">>,
     <<"[", BACKSLASH, "/", "]">>, <<"a", "[", "]", "b">>, <<"[", "-">>,
     <<"[", "[", ":", ":", "]", "a", "b">>,
     <<"t", "r", "a", "i", "l", "i", "n", "g", " ">>,
     <<"t", "r", "a", "i", "l", "i", "n", "g", BACKSLASH, " ">>,
     foo \o <<NUL>> \o bar, <<"[", "a", NUL, "]">>, <<"[", NUL, "-", "a", "]">>,
     <<"a", BACKSLASH, NUL>>, <<"*", "*", "/", NUL>>, <<"#">> \o foo \o <<NUL>>,
     <<"a", BACKSLASH, "/", "b">>, <<"!", "a", BACKSLASH, "/">>,
     <<"a", BACKSLASH, BACKSLASH, "/">>, <<"a", BACKSLASH, BACKSLASH, BACKSLASH>>,
     <<"[", "!", "a", "]">>, <<"[", "a", "]", "[">>, <<"[", "]", "a", "]">>,
     <<"[", "a", "[", "]">>, <<"[", BACKSLASH, "]", "]">>, <<"a", "/", "*", "*">>}
UtilPatterns ==
    SeqsUpTo(PatternAlphabet, MaxCallLen)
    \cup UNION {RangePatterns(lo, hi) : lo \in RangeEnds, hi \in RangeEnds}
    \cup UNION {PosixPatterns(name) : name \in ClassNames}
    \cup UtilExtra
\* Rulesets and paths in both cases of a letter, for a ruleset compiled with
\* and without ignorecase
CasePool ==
    {<<"a">>, <<"A">>, <<"[", "a", "]">>, <<"[", "A", "-", "B", "]">>,
     <<"[", "^", "a", "]">>, <<"[", "!", "A", "]">>, <<"!", "A">>, <<"!", "a">>, <<"*">>,
     <<"a", "/">>, <<"A", "/", "b">>, <<"?", "B">>,
     Bracketed(<<>>, <<>>, Colons(PosixNames.upper), <<>>),
     Bracketed(<<>>, <<"^">>, Colons(PosixNames.upper), <<>>),
     Bracketed(<<>>, <<>>, Colons(PosixNames.lower), <<"b">>)}
CaseLists ==
    {<<q>> : q \in CasePool}
    \cup {<< <<"*">>, <<"!", "A">> >>, << <<"!", "A">>, <<"*">> >>, << <<"a">>, <<"!", "A">> >>,
          << <<"A">>, <<"?", "B">> >>, << <<"[", "^", "a", "]">>, <<"a">> >>,
          << <<"A", "/">>, <<"!", "a", "/", "b">> >>}
CaseInputs ==
    WithDirs({<<"a">>, <<"A">>, <<"b">>, <<"a", "b">>, <<"A", "B">>, <<"a", "B">>,
              <<"a", "/", "b">>, <<"A", "/", "b">>, <<"a", "/", "B">>, <<"b", "/", "A">>})

\* ---- SpecStars: a pattern with globstars and the pattern it stands for ----
globstar == <<"*", "*">>
\* The X of a pattern **/X: none holds a slash
StarTails ==
    {<<"a">>, <<"*">>, <<"?">>, <<"a", "*">>, globstar, <<"[", "a", "b", "]">>, foo,
     <<>>, <<" ">>, <<TAB>>, <<LF>>, <<"a", " ">>, <<"a", LF>>,
     <<"!", "a">>, <<"#", "a">>, <<"!">>, <<"#">>,
     <<BACKSLASH, "!", "a">>, <<BACKSLASH, "#", "a">>, <<"a", "!">>, <<"a", "#">>}
\* A pattern, and the pattern with fewer globstars it is compared with
StarPairs ==
    {<<Under(foo, Under(globstar, Under(globstar, bar))), Under(foo, Under(globstar, bar))>>,
     <<Under(globstar, Under(globstar, foo)), Under(globstar, foo)>>}
    \cup {<<Under(globstar, X), X>> : X \in StarTails}
StarLists == {<<pr[1]>> : pr \in StarPairs}
StarInputs ==
    {StrPath(t) : t \in {Under(foo, bar), Under(foo, Under(baz, bar)),
                         Under(foo, Under(gnusto, Under(cleesh, bar))), foo, bar,
                         Under(baz, foo), Under(bar, Under(baz, foo)), Under(foo, baz),
                         <<"a">>, <<"b">>, <<"b", "/", "a">>, <<"a", "/", "b">>,
                         <<"!", "a">>, <<"b", "/", "!", "a">>, <<"#", "a">>, <<"a", "!">>,
                         <<"#">>, <<"a", "b">>}}

\* The ruleset of test_retrieve_pattern with the paths it is asked about, and
\* the patterns whose fields are looked at
FieldLists == {<<foo \o <<" ">>, Bang(bar)>>}
FieldInputs == WithDirs({foo, bar, quux, Under(foo, bar)})
FieldAlphabet == {"a", "!", "/", " ", TAB, BACKSLASH, "#"}
FieldPatterns ==
    SeqsUpTo(FieldAlphabet, MaxCallLen)
    \cup {foo \o <<" ">>, Bang(bar), Bang(Dir(foo)) \o <<" ", TAB>>, <<BACKSLASH>> \o Bang(foo),
          Dir(foo) \o <<BACKSLASH, " ", " ">>, Bang(Slash(Dir(foo)))}

\* One-element lists for compile, the element being any short line of a file
ElementAlphabet == {"a", "#", "!", "/", " ", LF, CR}
ElementLists == {<<q>> : q \in SeqsUpTo(ElementAlphabet, MaxCallLen)}

\* Arguments of trim_trailing_spaces
TrimAlphabet == {"a", " ", TAB, BACKSLASH}
TrimInputs ==
    SeqsUpTo(TrimAlphabet, MaxStrLen)
    \cup {foo \o <<" ", " ">>, foo \o <<BACKSLASH, " ", " ">>,
          foo \o <<BACKSLASH, BACKSLASH, " ">>, foo \o <<" ", BACKSLASH, " ">>}
\* Arguments of chomp
ChompAlphabet == {"a", LF, CR}
ChompInputs ==
    SeqsUpTo(ChompAlphabet, MaxStrLen)
    \cup {foo \o bar \o <<LF, LF>>, foo \o bar \o <<LF, CR>>, foo \o bar \o <<CR, LF>>}
\* Lines of a file handed to compile with their line endings
UtilLists ==
    {<<foo \o <<LF>>, foo \o <<CR>>, foo \o <<CR, LF>>, foo \o <<" ", CR, LF>>,
       foo \o <<LF, LF>>, <<"#", LF>>, <<LF>>, foo \o <<BACKSLASH, " ", LF>> >>}
TwiceLists ==
    {<<>>, << <<"*">> >>, << <<"a", "/">> >>, << <<"a">> >>,
     << <<"a", "/">>, <<"!", "a", "/", "a">> >>, << <<"*">>, <<"!", "a", "/">> >>,
     << <<"a", "/", "a">>, <<"!", "a">> >>}

(***************************************************************************)
(* State                                                                   *)
(***************************************************************************)
VARIABLES
    patterns,           \* compile: the argument patterns
    ignorecase,         \* compile: the argument ignorecase
    n_done,             \* compile: how many elements of patterns the loop has taken
    compiled_patterns,  \* compile: the list built, then Gitignore.patterns
    pc,                 \* "compile", "ready", "pathway", "loop" or "done"
    orig,               \* match: the argument path, never modified
    is_dir,             \* match: the argument is_dir, set when the path ends in "/"
    path,               \* match: the local path
    pw_path,            \* pathway: the local path
    pway,               \* pathway: the local pway
    p_i,                \* match: the index in pathway(path) of the loop variable p
    pat_i,              \* match: the index in reversed(self.patterns) of the loop variable pat
    result,             \* match: what the call returned or raised
    earlier,            \* the caller: the call of match made before this one
    call,               \* the caller: a direct call of a function of the module
    ret                 \* the caller: what that call returned or raised

vars ==
    <<patterns, ignorecase, n_done, compiled_patterns, pc, orig, is_dir, path,
      pw_path, pway, p_i, pat_i, result, earlier, call, ret>>

compile_vars == <<patterns, ignorecase, n_done, compiled_patterns>>
match_vars == <<orig, is_dir, path, pw_path, pway, p_i, pat_i, result>>
caller_vars == <<earlier, call, ret>>

Pending == [kind |-> "pending"]
\* No call of match was made before, no function is called directly
NoEarlier == [kind |-> "none"]
NoCall == [fn |-> "none"]
ReturnNone == [kind |-> "None"]
\* Match(pat, p)
Match(pat, p) == [kind |-> "Match", pattern_obj |-> pat, path |-> p]
\* InvalidPathError(msg, path)
InvalidPathError(msg, o) == [kind |-> "InvalidPathError", msg |-> msg, path |-> o]
\* Match.__bool__, and bool(None)
Truthy(r) == r.kind = "Match" /\ ~r.pattern_obj.negative

\* compile is called on one of lists with one of flags
InitWith(lists, flags) ==
    /\ patterns \in lists
    /\ ignorecase \in flags
    /\ n_done = 0
    /\ compiled_patterns = <<>>
    /\ pc = "compile"
    /\ orig = NoPath
    /\ is_dir = FALSE
    /\ path = <<>>
    /\ pw_path = <<>>
    /\ pway = <<>>
    /\ p_i = 0
    /\ pat_i = 0
    /\ result = Pending
    /\ earlier = NoEarlier
    /\ call = NoCall
    /\ ret = Pending

Init == InitWith(PatternLists, {FALSE})

(***************************************************************************)
(* compile                                                                 *)
(***************************************************************************)
\* A faulty compile that loses the rules built so far when an element gives
\* no rule
CompiledOrReset(compiled, regex) ==
    IF regex.kind = "Regex" THEN Append(compiled, RegexCompile(regex)) ELSE <<>>

\* A faulty compile that appends whatever pattern2regex returned
CompiledAlways(compiled, regex) == Append(compiled, regex)

\* The list compile has built after the outcome regex of pattern2regex: None
\* and InvalidPatternError are skipped, a Regex is compiled and appended
Compiled(compiled, regex) ==
    IF regex.kind = "Regex" THEN Append(compiled, RegexCompile(regex)) ELSE compiled

\* One iteration of the loop of compile: the next pattern is chomped and
\* translated; an invalid or empty one is skipped, the others are appended.
CompilePattern ==
    /\ pc = "compile"
    /\ n_done < Len(patterns)
    /\ compiled_patterns' =
           Compiled(compiled_patterns, pattern2regex(chomp(patterns[n_done + 1]), ignorecase))
    /\ n_done' = n_done + 1
    /\ UNCHANGED <<patterns, ignorecase, pc>>
    /\ UNCHANGED match_vars
    /\ UNCHANGED caller_vars

\* The loop is over: return Gitignore(compiled_patterns)
CompileReturn ==
    /\ pc = "compile"
    /\ n_done = Len(patterns)
    /\ pc' = "ready"
    /\ UNCHANGED compile_vars
    /\ UNCHANGED match_vars
    /\ UNCHANGED caller_vars

(***************************************************************************)
(* Gitignore.match                                                         *)
(***************************************************************************)
\* os.sep
SEP == "/"
SLASH == "/"
WINSEP == BACKSLASH
CURDIR == <<".">>
PARDIR == <<".", ".">>

\* The path after the separators are translated (lines 96-99)
Translated(o) ==
    IF SEP # SLASH /\ o.kind # "PurePosixPath" THEN Replace(o.text, SEP, SLASH)
    ELSE IF o.kind = "PureWindowsPath" THEN Replace(o.text, WINSEP, SLASH)
    ELSE o.text

\* The path with its trailing slash left in place
StripSlashKept(t) == t

\* The path after its trailing slash is stripped (lines 100-102)
StripSlash(t) == IF EndsWith(t, <<SLASH>>) THEN SubSeq(t, 1, Len(t) - 1) ELSE t

\* Faulty checks, the normalization looked at first
PathErrorNormFirst(text, stripped) ==
    IF normpath(stripped) # stripped THEN "Path is not normalized"
    ELSE IF text = <<>> THEN "Empty path"
    ELSE IF Contains(text, NUL) THEN "Path contains NUL byte"
    ELSE IF isabs(text) THEN "Path is not relative"
    ELSE IF Split(stripped, SLASH)[1] = PARDIR THEN "Path cannot begin with '..'"
    ELSE "ok"

\* The checks of match in their order, text being os.fspath(path) and stripped
\* the translated path without its trailing slash: the error raised, or "ok"
PathError(text, stripped) ==
    IF text = <<>> THEN "Empty path"
    ELSE IF Contains(text, NUL) THEN "Path contains NUL byte"
    ELSE IF isabs(text) THEN "Path is not relative"
    ELSE IF normpath(stripped) # stripped THEN "Path is not normalized"
    ELSE IF Split(stripped, SLASH)[1] = PARDIR THEN "Path cannot begin with '..'"
    ELSE "ok"

\* The checks without the early return for "."
CheckedAlsoCurdir(o, stripped, err) ==
    IF err # "ok"
    THEN /\ result' = InvalidPathError(err, o)
         /\ pc' = "done"
         /\ UNCHANGED <<path, pw_path>>
    ELSE /\ pc' = "pathway"
         /\ path' = stripped
         /\ pw_path' = stripped
         /\ UNCHANGED result

\* What match does after its checks gave err on the path stripped
Checked(o, stripped, err) ==
    IF err # "ok"
    THEN /\ result' = InvalidPathError(err, o)
         /\ pc' = "done"
         /\ UNCHANGED <<path, pw_path>>
    ELSE IF stripped = CURDIR
    THEN /\ result' = ReturnNone
         /\ pc' = "done"
         /\ path' = stripped
         /\ UNCHANGED pw_path
    ELSE /\ pc' = "pathway"
         /\ path' = stripped
         /\ pw_path' = stripped
         /\ UNCHANGED result

\* The call match(o, d) up to the loop: the path is checked and normalized;
\* the call raises, returns None for ".", or goes on to pathway(path).
MatchCall(o, d) ==
    /\ pc = "ready"
    /\ orig' = o
    /\ is_dir' = (d \/ EndsWith(Translated(o), <<SLASH>>))
    /\ Checked(o, StripSlash(Translated(o)),
               PathError(o.text, StripSlash(Translated(o))))
    /\ UNCHANGED <<pway, p_i, pat_i>>
    /\ UNCHANGED compile_vars
    /\ UNCHANGED caller_vars

\* One iteration of the loop of pathway: while path: pway.append(path);
\* path = posixpath.dirname(path)
PathwayStep ==
    /\ pc = "pathway"
    /\ pw_path # <<>>
    /\ Len(pway) < MaxPathway
    /\ pway' = Append(pway, pw_path)
    /\ pw_path' = dirname(pw_path)
    /\ UNCHANGED <<pc, orig, is_dir, path, p_i, pat_i, result>>
    /\ UNCHANGED compile_vars
    /\ UNCHANGED caller_vars

\* A faulty pathway that leaves its list deepest-first
ReverseSkipped(s) == s

\* pway.reverse()
Reverse(s) == [i \in 1..Len(s) |-> s[Len(s) + 1 - i]]

\* A faulty inner loop that takes the rules in input order
reversedSkipped(s) == s

\* reversed(self.patterns), the rules in the order the inner loop takes them
reversed(s) == [i \in 1..Len(s) |-> s[Len(s) + 1 - i]]

\* pathway returns its list reversed and the loops of match begin, on the
\* shallowest ancestor and the first rule of reversed(self.patterns)
PathwayReturn ==
    /\ pc = "pathway"
    /\ pw_path = <<>>
    /\ pway' = Reverse(pway)
    /\ pc' = "loop"
    /\ p_i' = IF compiled_patterns = <<>> THEN Len(pway) + 1 ELSE 1
    /\ pat_i' = 1
    /\ UNCHANGED <<orig, is_dir, path, pw_path, result>>
    /\ UNCHANGED compile_vars
    /\ UNCHANGED caller_vars

\* A faulty inner loop without the break: after a negated rule matched an
\* ancestor, the rules before it are still tried on that ancestor
TestedNoBreak(p, pat, hit) ==
    IF hit /\ (~pat.negative \/ p = path)
    THEN /\ result' = Match(pat, p)
         /\ pc' = "done"
         /\ UNCHANGED <<p_i, pat_i>>
    ELSE IF pat_i = Len(compiled_patterns)
    THEN /\ p_i' = p_i + 1
         /\ pat_i' = 1
         /\ UNCHANGED <<pc, result>>
    ELSE /\ pat_i' = pat_i + 1
         /\ UNCHANGED <<pc, result, p_i>>

\* What the inner loop of match does once pat is tested on p, hit being the
\* value of pat.match(p, ...): a match of a non-negated rule, or of any rule on
\* the path itself, returns; a match of a negated rule on an ancestor breaks
\* to the next ancestor; otherwise the next rule of reversed(self.patterns) is
\* taken, or the next ancestor after its last rule.
Tested(p, pat, hit) ==
    IF hit /\ (~pat.negative \/ p = path)
    THEN /\ result' = Match(pat, p)
         /\ pc' = "done"
         /\ UNCHANGED <<p_i, pat_i>>
    ELSE IF hit \/ pat_i = Len(compiled_patterns)
    THEN /\ p_i' = p_i + 1
         /\ pat_i' = 1
         /\ UNCHANGED <<pc, result>>
    ELSE /\ pat_i' = pat_i + 1
         /\ UNCHANGED <<pc, result, p_i>>

\* A faulty inner loop that tests every ancestor with the is_dir of the call
MatchTestAsGiven ==
    /\ pc = "loop"
    /\ p_i <= Len(pway)
    /\ Tested(pway[p_i], reversed(compiled_patterns)[pat_i],
              PatternMatch(reversed(compiled_patterns)[pat_i], pway[p_i], is_dir))
    /\ UNCHANGED <<orig, is_dir, path, pw_path, pway>>
    /\ UNCHANGED compile_vars
    /\ UNCHANGED caller_vars

\* One iteration of the inner loop of match, on p = pway[p_i] and
\* pat = reversed(self.patterns)[pat_i]
MatchTest ==
    /\ pc = "loop"
    /\ p_i <= Len(pway)
    /\ Tested(pway[p_i], reversed(compiled_patterns)[pat_i],
              PatternMatch(reversed(compiled_patterns)[pat_i], pway[p_i],
                           IF pway[p_i] = path THEN is_dir ELSE TRUE))
    /\ UNCHANGED <<orig, is_dir, path, pw_path, pway>>
    /\ UNCHANGED compile_vars
    /\ UNCHANGED caller_vars

\* Both loops are over without a decision: return None
MatchReturnNone ==
    /\ pc = "loop"
    /\ p_i > Len(pway)
    /\ result' = ReturnNone
    /\ pc' = "done"
    /\ UNCHANGED <<orig, is_dir, path, pw_path, pway, p_i, pat_i>>
    /\ UNCHANGED compile_vars
    /\ UNCHANGED caller_vars

\* compile, then one call of match on one of inputs
Run(inputs) ==
    \/ CompilePattern
    \/ CompileReturn
    \/ \E o \in inputs, d \in BOOLEAN : MatchCall(o, d)
    \/ PathwayStep
    \/ PathwayReturn
    \/ MatchTest
    \/ MatchReturnNone

Next == Run(PathInputs)

Spec == Init /\ [][Next]_vars

\* One rule of wildcards against paths of one to MaxDepth segments
InitGlob == InitWith(GlobLists, {FALSE})
NextGlob == Run(GlobInputs)
SpecGlob == InitGlob /\ [][NextGlob]_vars

\* A few rulesets against every short text, valid as a path or not
InitPath == InitWith(PathLists, {FALSE})
NextPath == Run(PathTexts)
SpecPath == InitPath /\ [][NextPath]_vars

\* The caller calls match a second time on the same Gitignore: the first call
\* is over, its argument, its directory flag and its outcome are remembered,
\* and the locals of match start afresh.
MatchAgain ==
    /\ pc = "done"
    /\ earlier = NoEarlier
    /\ earlier' = [kind |-> "call", orig |-> orig, is_dir |-> is_dir, result |-> result]
    /\ pc' = "ready"
    /\ orig' = NoPath
    /\ is_dir' = FALSE
    /\ path' = <<>>
    /\ pw_path' = <<>>
    /\ pway' = <<>>
    /\ p_i' = 0
    /\ pat_i' = 0
    /\ result' = Pending
    /\ UNCHANGED compile_vars
    /\ UNCHANGED <<call, ret>>

\* A str returned by a function of the module
Str(s) == [kind |-> "str", text |-> s]

\* The caller calls pattern2regex(pattern, ignorecase=ic)
CallPattern2regex(pattern, ic) ==
    /\ pc = "ready"
    /\ call = NoCall
    /\ call' = [fn |-> "pattern2regex", pattern |-> pattern, ignorecase |-> ic]
    /\ ret' = pattern2regex(pattern, ic)
    /\ UNCHANGED <<pc, earlier>>
    /\ UNCHANGED compile_vars
    /\ UNCHANGED match_vars

\* The caller calls trim_trailing_spaces(s)
CallTrim(s) ==
    /\ pc = "ready"
    /\ call = NoCall
    /\ call' = [fn |-> "trim_trailing_spaces", s |-> s]
    /\ ret' = Str(trim_trailing_spaces(s))
    /\ UNCHANGED <<pc, earlier>>
    /\ UNCHANGED compile_vars
    /\ UNCHANGED match_vars

\* The caller calls chomp(s)
CallChomp(s) ==
    /\ pc = "ready"
    /\ call = NoCall
    /\ call' = [fn |-> "chomp", s |-> s]
    /\ ret' = Str(chomp(s))
    /\ UNCHANGED <<pc, earlier>>
    /\ UNCHANGED compile_vars
    /\ UNCHANGED match_vars

\* compile on the lines of a file, then one direct call of pattern2regex,
\* trim_trailing_spaces or chomp
InitUtil == InitWith(UtilLists, {FALSE})
NextUtil ==
    \/ CompilePattern
    \/ CompileReturn
    \/ \E q \in UtilPatterns, ic \in BOOLEAN : CallPattern2regex(q, ic)
    \/ \E s \in TrimInputs : CallTrim(s)
    \/ \E s \in ChompInputs : CallChomp(s)
SpecUtil == InitUtil /\ [][NextUtil]_vars

\* The caller compiles the same patterns a second time, with ignorecase=True:
\* the call of match on the first Gitignore is over, its argument, its
\* directory flag and its outcome are remembered with the flag the first
\* Gitignore was compiled with, and compile and match start afresh.
CompileAgain ==
    /\ pc = "done"
    /\ earlier = NoEarlier
    /\ ~ignorecase
    /\ earlier' = [kind |-> "call", orig |-> orig, is_dir |-> is_dir, result |-> result,
                   ignorecase |-> ignorecase]
    /\ ignorecase' = TRUE
    /\ n_done' = 0
    /\ compiled_patterns' = <<>>
    /\ pc' = "compile"
    /\ orig' = NoPath
    /\ is_dir' = FALSE
    /\ path' = <<>>
    /\ pw_path' = <<>>
    /\ pway' = <<>>
    /\ p_i' = 0
    /\ pat_i' = 0
    /\ result' = Pending
    /\ UNCHANGED <<patterns, call, ret>>

\* One list of patterns compiled without and then with ignorecase, match
\* called on each Gitignore
InitCase == InitWith(CaseLists, {FALSE})
NextCase == Run(CaseInputs) \/ CompileAgain
SpecCase == InitCase /\ [][NextCase]_vars

\* compile, match, and one direct call of pattern2regex
InitFields == InitWith(FieldLists, {FALSE})
NextFields ==
    \/ Run(FieldInputs)
    \/ \E q \in FieldPatterns, ic \in BOOLEAN : CallPattern2regex(q, ic)
SpecFields == InitFields /\ [][NextFields]_vars

\* compile on a list, then a direct call of pattern2regex on one of its
\* elements with the same flag
CallOnElement == \E k \in 1..Len(patterns) : CallPattern2regex(patterns[k], ignorecase)
InitElement == InitWith(ElementLists, BOOLEAN)
NextElement == CompilePattern \/ CompileReturn \/ CallOnElement
SpecElement == InitElement /\ [][NextElement]_vars

\* The caller compiles a second list, the partner of the first: the call of
\* match on the first Gitignore is over, the list it was compiled from, the
\* argument, the directory flag and the outcome of the call are remembered,
\* and compile and match start afresh.
CompilePartner ==
    /\ pc = "done"
    /\ earlier = NoEarlier
    /\ earlier' = [kind |-> "call", patterns |-> patterns, orig |-> orig, is_dir |-> is_dir,
                   result |-> result]
    /\ \E pr \in StarPairs : patterns = <<pr[1]>> /\ patterns' = <<pr[2]>>
    /\ n_done' = 0
    /\ compiled_patterns' = <<>>
    /\ pc' = "compile"
    /\ orig' = NoPath
    /\ is_dir' = FALSE
    /\ path' = <<>>
    /\ pw_path' = <<>>
    /\ pway' = <<>>
    /\ p_i' = 0
    /\ pat_i' = 0
    /\ result' = Pending
    /\ UNCHANGED <<ignorecase, call, ret>>

\* Two lists of one pattern compiled one after the other, match called on
\* each Gitignore
InitStars == InitWith(StarLists, {FALSE})
NextStars == Run(StarInputs) \/ CompilePartner
SpecStars == InitStars /\ [][NextStars]_vars

\* Two calls of match on one Gitignore
InitTwice == InitWith(TwiceLists, {FALSE})
NextTwice == Run(TwiceInputs) \/ MatchAgain
SpecTwice == InitTwice /\ [][NextTwice]_vars

(***************************************************************************)
(* Properties: the decision of match                                       *)
(***************************************************************************)
\* match returned after walking a path other than "."
Walked == pc = "done" /\ result.kind \in {"Match", "None"} /\ path # CURDIR

\* The proper ancestors of the path q: its prefixes that end before a slash
ProperAncestors(q) == {SubSeq(q, 1, i - 1) : i \in {j \in 1..Len(q) : q[j] = "/"}}

\* The ancestor of the walked path just below its proper ancestor a: the next
\* proper ancestor, or the path itself
ChildOf(a) ==
    LET deeper == {b \in ProperAncestors(path) : Len(b) > Len(a)}
    IN IF deeper = {} THEN path
       ELSE CHOOSE b \in deeper : \A c \in deeper : Len(b) <= Len(c)

\* The flag a is tested with: the caller's for the path, TRUE for an ancestor
DirFlag(a) == IF a = path THEN is_dir ELSE TRUE

\* The rules of the ruleset that match a, by their index in input order
HitsOn(a) ==
    {i \in 1..Len(compiled_patterns) : PatternMatch(compiled_patterns[i], a, DirFlag(a))}

\* The last rule in input order that matches a
LastHit(a) == compiled_patterns[CHOOSE i \in HitsOn(a) : \A j \in HitsOn(a) : j <= i]

\* The last rule matching a is non-negated, resp. negated
Affirmative(a) == HitsOn(a) # {} /\ ~LastHit(a).negative
NegatedOn(a) == HitsOn(a) # {} /\ LastHit(a).negative

\* No ancestor shallower than a gives an affirmative hit
NoneAbove(a) == \A b \in ProperAncestors(path) : Len(b) < Len(a) => ~Affirmative(b)

\* C1: the shallowest proper ancestor whose last matching rule is non-negated
\* decides the call: the result is the truthy Match of that rule on that
\* ancestor, whatever rule (negated or not) matches the path itself; so foo, !bar
\* in either order ignore foo/bar with Match.path = foo.
C1_FirstAffirmativeAncestor ==
    Walked =>
        /\ \A a \in ProperAncestors(path) :
               (Affirmative(a) /\ NoneAbove(a)) =>
                   /\ result = Match(LastHit(a), a)
                   /\ Truthy(result)
        /\ (patterns \in {<<foo, Bang(bar)>>, <<Bang(bar), foo>>} /\ path = Under(foo, bar)) =>
               (Truthy(result) /\ result.path = foo)

\* C1 happens: foo, !bar on foo/bar, where the negated rule matches the leaf
\* and the ancestor foo was hit first
C1_Witness ==
    /\ Walked
    /\ patterns = <<foo, Bang(bar)>>
    /\ path = Under(foo, bar)
    /\ Affirmative(foo)
    /\ NegatedOn(path)
    /\ result.kind = "Match"
    /\ result.path = foo

\* C2: when the last rule matching a proper ancestor is negated, the result
\* is never a Match on that ancestor, even when a rule listed earlier matches
\* it too, and the walk goes on: if it reached that ancestor, the next deeper
\* ancestor is decided by the last of all the rules that match it.  With the
\* layered rules /*, !/foo, /foo/*, !/foo/bar the paths foo and foo/bar are
\* not ignored; quux, foo/quux, foo/quux/gnusto and quux/foo/bar are.
C2_NegatedAncestorAbandoned ==
    Walked =>
        /\ \A a \in ProperAncestors(path) :
               NegatedOn(a) =>
                   /\ result.kind = "Match" => result.path # a
                   /\ (NoneAbove(a) /\ (ChildOf(a) = path \/ Affirmative(ChildOf(a)))) =>
                          IF HitsOn(ChildOf(a)) = {} THEN result = ReturnNone
                          ELSE result = Match(LastHit(ChildOf(a)), ChildOf(a))
        /\ (patterns = Layered /\ path \in {foo, Under(foo, bar)}) => ~Truthy(result)
        /\ (patterns = Layered /\ path \in {quux, Under(foo, quux),
                                           Under(Under(foo, quux), gnusto),
                                           Under(quux, Under(foo, bar))}) => Truthy(result)

\* C2 happens: the last rule matching the ancestor foo is negated while an
\* earlier non-negated rule matches it too, and the call returned
C2_Witness ==
    /\ Walked
    /\ patterns = <<foo, Bang(foo)>>
    /\ path = Under(foo, bar)
    /\ NegatedOn(foo)
    /\ PatternMatch(compiled_patterns[1], foo, TRUE)
    /\ result = ReturnNone

\* C3: a path of one segment is decided by the last rule in input order that
\* matches it: the result is the Match of that rule on the path, truthy iff
\* the rule is not negated, and None when no rule matches; *.txt, !foo.txt
\* does not ignore foo.txt and !foo.txt, *.txt does.
C3_SingleSegmentLastRule ==
    (Walked /\ ProperAncestors(path) = {}) =>
        /\ HitsOn(path) = {} => result = ReturnNone
        /\ HitsOn(path) # {} =>
               /\ result = Match(LastHit(path), path)
               /\ Truthy(result) <=> ~LastHit(path).negative
        /\ (patterns = <<star_txt, Bang(foo_txt)>> /\ path = foo_txt) => ~Truthy(result)
        /\ (patterns = <<Bang(foo_txt), star_txt>> /\ path = foo_txt) => Truthy(result)

\* C3 happens: both rules of *.txt, !foo.txt match foo.txt and the negated
\* one, the last, decided
C3_Witness ==
    /\ Walked
    /\ patterns = <<star_txt, Bang(foo_txt)>>
    /\ path = foo_txt
    /\ HitsOn(path) = {1, 2}
    /\ result.kind = "Match"
    /\ result.pattern_obj.negative

\* The rules kept from foo/ alone
OnlyDirFoo == patterns = <<Dir(foo)>>

\* C4: a dir-only rule never matches a path that is not a directory and is
\* never the rule of a Match on such a path, but it matches the proper
\* ancestors whatever is_dir is: a ruleset of one non-negated dir-only rule
\* ignores exactly the paths with a proper ancestor its regex matches and the
\* directories its regex matches.  foo/ ignores neither the file foo nor the
\* file bar/foo; it ignores foo/, foo/quux and bar/foo/quux.
C4_DirOnly ==
    Walked =>
        /\ \A i \in 1..Len(compiled_patterns) :
               (compiled_patterns[i].dir_only /\ ~is_dir) => i \notin HitsOn(path)
        /\ (result.kind = "Match" /\ result.pattern_obj.dir_only /\ result.path = path) => is_dir
        /\ (Len(compiled_patterns) = 1 /\ compiled_patterns[1].dir_only
                /\ ~compiled_patterns[1].negative) =>
               (Truthy(result) <=>
                   \/ \E a \in ProperAncestors(path) : fullmatch(compiled_patterns[1].regex, a)
                   \/ is_dir /\ fullmatch(compiled_patterns[1].regex, path))
        /\ (OnlyDirFoo /\ ~is_dir /\ path \in {foo, Under(bar, foo)}) => ~Truthy(result)
        /\ (OnlyDirFoo /\ orig.text \in {Dir(foo), Under(foo, quux), Under(Under(bar, foo), quux)})
               => Truthy(result)

\* C4 happens: foo/ matched the ancestor foo of the file foo/quux, passed
\* with is_dir false
C4_Witness ==
    /\ Walked
    /\ OnlyDirFoo
    /\ orig = StrPath(Under(foo, quux))
    /\ ~is_dir
    /\ result.kind = "Match"
    /\ result.pattern_obj.dir_only
    /\ result.path = foo

(***************************************************************************)
(* Properties: compile                                                     *)
(***************************************************************************)
\* What the element x of the argument of compile translates to
TranslationOf(x) == pattern2regex(chomp(x), ignorecase)

\* The elements among the first n of patterns that translate to a Regex
KeptUpTo(n) == {i \in 1..n : TranslationOf(patterns[i]).kind = "Regex"}

\* The k-th of them
KthKept(n, k) == CHOOSE i \in KeptUpTo(n) : Cardinality({j \in KeptUpTo(n) : j <= i}) = k

\* compile has just returned
CompileOver == pc = "ready"

\* C8: compile meets no outcome of the translation but a Regex, None or the
\* InvalidPatternError it catches, so it takes every element and returns; the
\* list it has built after n elements holds, in their order, exactly the
\* compiled Regex of each of these elements that translates to one, the
\* others leaving no trace.  foo\, bar gives the single rule bar.
C8_CompileKeepsValidInOrder ==
    pc \in {"compile", "ready"} =>
        /\ n_done <= Len(patterns)
        /\ CompileOver => n_done = Len(patterns)
        /\ \A i \in 1..Len(patterns) :
               TranslationOf(patterns[i]).kind \in {"Regex", "None", "InvalidPatternError"}
        /\ Len(compiled_patterns) = Cardinality(KeptUpTo(n_done))
        /\ \A k \in 1..Len(compiled_patterns) :
               compiled_patterns[k] = RegexCompile(TranslationOf(patterns[KthKept(n_done, k)]))
        /\ (CompileOver /\ patterns = <<foo \o <<BACKSLASH>>, bar>>) =>
               (Len(compiled_patterns) = 1 /\ compiled_patterns[1].pattern = bar)

\* C8 happens: compile returned on a list whose valid element comes before a
\* malformed one, and on foo\, bar
C8_Witness ==
    /\ CompileOver
    /\ \/ /\ patterns = <<foo, <<"[", "a">> >>
          /\ TranslationOf(patterns[2]).kind = "InvalidPatternError"
          /\ Len(compiled_patterns) = 1
       \/ /\ patterns = <<foo \o <<BACKSLASH>>, bar>>
          /\ TranslationOf(patterns[1]).kind = "InvalidPatternError"
          /\ Len(compiled_patterns) = 1

(***************************************************************************)
(* Properties: what one rule matches                                       *)
(***************************************************************************)
\* The ruleset holds one rule
OneRule == Len(compiled_patterns) = 1
TheRule == compiled_patterns[1]

\* A pattern without its "!" and without its dir-only trailing slash
Stem(q) ==
    LET u == IF StartsWith(q, <<"!">>) THEN Tail(q) ELSE q
    IN IF EndsWith(u, <<"/">>) THEN SubSeq(u, 1, Len(u) - 1) ELSE u

\* s has a leading slash, or a slash followed by another character
LeadingOrInternalSlash(s) ==
    StartsWith(s, <<"/">>) \/ \E i \in 1..(Len(s) - 1) : s[i] = "/"

\* s holds two asterisks in a row
HasGlobstar(s) == \E i \in 1..(Len(s) - 1) : s[i] = "*" /\ s[i + 1] = "*"

\* The path p without its first segment, p having several
BelowFirst(p) ==
    SubSeq(p, (CHOOSE i \in 1..Len(p) : p[i] = "/" /\ \A j \in 1..(i - 1) : p[j] # "/") + 1,
           Len(p))

\* The last segment of the path p
LastSegment(p) ==
    LET at == {i \in 1..Len(p) : p[i] = "/"}
    IN IF at = {} THEN p
       ELSE SubSeq(p, (CHOOSE i \in at : \A j \in at : j <= i) + 1, Len(p))

\* The paths the walk tests: the proper ancestors and the path
SelfAndAncestors == ProperAncestors(path) \cup {path}

\* The one rule matches p, tested as the walk tests it
RuleMatches(p) == PatternMatch(TheRule, p, DirFlag(p))

\* C5: a rule whose pattern, without its dir-only slash, has no leading slash
\* and no slash followed by another character matches a path exactly when it
\* matches the last segment of that path, at any depth; a rule whose pattern
\* has a leading or an internal slash matches only from the root: when the
\* pattern holds no globstar, it never matches both a path and that path
\* below one more directory.
C5_Anchoring ==
    (Walked /\ OneRule) =>
        /\ ~LeadingOrInternalSlash(Stem(TheRule.pattern)) =>
               \A p \in SelfAndAncestors :
                   RuleMatches(p) <=> PatternMatch(TheRule, LastSegment(p), DirFlag(p))
        /\ (LeadingOrInternalSlash(Stem(TheRule.pattern)) /\ ~HasGlobstar(TheRule.pattern)) =>
               \A p \in {q \in SelfAndAncestors : Contains(q, "/")} :
                   ~(PatternMatch(TheRule, BelowFirst(p), TRUE) /\ PatternMatch(TheRule, p, TRUE))

\* The classical glob match of q, made of letters, "?" and "*", on the text
\* s: "?" takes one character and "*" a possibly empty run, none a slash
RECURSIVE Glob(_, _)
Glob(q, s) ==
    IF q = <<>> THEN s = <<>>
    ELSE IF q[1] = "*"
    THEN \E k \in 0..Len(s) :
             /\ \A i \in 1..k : s[i] # "/"
             /\ Glob(Tail(q), SubSeq(s, k + 1, Len(s)))
    ELSE /\ s # <<>>
         /\ IF q[1] = "?" THEN s[1] # "/" ELSE s[1] = q[1]
         /\ Glob(Tail(q), Tail(s))

\* q is made of letters, "?" and "*" only
WildcardsOnly(q) == q # <<>> /\ \A i \in 1..Len(q) : q[i] \in {"a", "b", "?", "*"}

\* q holds a character class
HasClass(q) == Contains(q, "[")

\* Every slash of q stands between the brackets of a class
SlashesInClass(q) ==
    \A i \in 1..Len(q) :
        q[i] = "/" =>
            \E j \in 1..(i - 1) :
                /\ q[j] = "["
                /\ \A m \in (j + 2)..i : q[m] # "]"
                /\ \E k \in (i + 1)..Len(q) : q[k] = "]"

\* C6: no wildcard crosses a separator.  A rule made of letters, "?" and "*"
\* (a "**" away from any slash being two of them) matches a path exactly when
\* the glob match of its pattern takes the last segment of the path, "?" as
\* one character and "*" as a possibly empty run; a rule with a character
\* class matches a path only if it matches its last segment alone, and only
\* a path of one segment when the pattern holds a slash, which is then in the
\* class: so the class took no slash, negated or not; [/] and [\/] match
\* nothing.
C6_NoWildcardCrossesSlash ==
    (Walked /\ OneRule) =>
        /\ WildcardsOnly(TheRule.pattern) =>
               \A p \in SelfAndAncestors :
                   RuleMatches(p) <=> Glob(TheRule.pattern, LastSegment(p))
        /\ (HasClass(TheRule.pattern) /\ SlashesInClass(TheRule.pattern)) =>
               \A p \in SelfAndAncestors :
                   RuleMatches(p) =>
                       /\ PatternMatch(TheRule, LastSegment(p), TRUE)
                       /\ Contains(TheRule.pattern, "/") => ~Contains(p, "/")
        /\ TheRule.pattern \in {<<"[", "/", "]">>, <<"[", BACKSLASH, "/", "]">>} =>
               \A p \in SelfAndAncestors : ~RuleMatches(p)

\* C6 happens: a?b, a*b and the negated classes were tested on a/b, where
\* only a slash stands between a and b, and did not match
C6_Witness ==
    /\ Walked
    /\ OneRule
    /\ TheRule.pattern \in {<<"a", "?", "b">>, <<"a", "*", "b">>, <<"a", "[", "^", "a", "]", "b">>,
                            <<"a", "[", "^", "[", ":", "a", "l", "p", "h", "a", ":", "]", "]", "b">>}
    /\ path = <<"a", "/", "b">>
    /\ PatternMatch(TheRule, <<"a", ".", "b">>, TRUE)
    /\ result = ReturnNone

\* The pattern q without the /** it ends in, however many
RECURSIVE DirBefore(_)
DirBefore(q) ==
    IF Len(q) > 3 /\ SubSeq(q, Len(q) - 2, Len(q)) = <<"/", "*", "*">>
    THEN DirBefore(SubSeq(q, 1, Len(q) - 3))
    ELSE q

\* q names a directory by the letters of its segments, from the root
NamesDirectory(q) ==
    /\ q # <<>>
    /\ \A i \in 1..Len(q) : q[i] \in {"a", "b", "/"}
    /\ q[1] # "/" /\ q[Len(q)] # "/"
    /\ \A i \in 1..(Len(q) - 1) : ~(q[i] = "/" /\ q[i + 1] = "/")

\* s without its leading slash
Rooted(s) == IF StartsWith(s, <<"/">>) THEN Tail(s) ELSE s

\* The directory a pattern ending in /** names
TheDir == Rooted(DirBefore(TheRule.pattern))

\* The entry of the directory d that the walked path is or is below
EntryOf(d) ==
    CHOOSE p \in SelfAndAncestors :
        /\ StartsWith(p, Dir(d)) /\ Len(p) > Len(d) + 1
        /\ \A q \in SelfAndAncestors :
               (StartsWith(q, Dir(d)) /\ Len(q) > Len(d) + 1) => Len(p) <= Len(q)

\* The ruleset is one non-negated rule: a directory name, then /** once or more
GlobstarBelow ==
    /\ OneRule
    /\ EndsWith(TheRule.pattern, <<"/", "*", "*">>)
    /\ NamesDirectory(TheDir)

\* C7: the rule d/** (and d/**/**), d naming a directory, ignores exactly the
\* paths strictly below d from the root, the Match being on the entry of d
\* they are in or under; it matches neither d itself, file or directory, nor
\* a path below a directory d elsewhere than at the root.
C7_TrailingGlobstar ==
    (Walked /\ GlobstarBelow) =>
        /\ Truthy(result) <=> (StartsWith(path, Dir(TheDir)) /\ Len(path) > Len(TheDir) + 1)
        /\ Truthy(result) => result.path = EntryOf(TheDir)
        /\ \A p \in SelfAndAncestors : p = TheDir => ~PatternMatch(TheRule, p, TRUE)

\* C7 happens: a/**/** ignored a/b/a by its entry a/b of the directory a
C7_Witness ==
    /\ Walked
    /\ GlobstarBelow
    /\ TheRule.pattern = <<"a", "/", "*", "*", "/", "*", "*">>
    /\ path = <<"a", "/", "b", "/", "a">>
    /\ Truthy(result)
    /\ result.path = <<"a", "/", "b">>

(***************************************************************************)
(* Properties: the path match accepts                                      *)
(***************************************************************************)
\* match was called
Called == pc \in {"pathway", "loop", "done"}

\* The path was passed as a PureWindowsPath, with a root
Windows == orig.kind = "PureWindowsPath"
WindowsRooted == Windows /\ StartsWith(orig.text, <<BACKSLASH>>)

\* The text of the argument, its backslashes read as separators when it is a
\* PureWindowsPath, and that text without one trailing slash
GivenText == IF Windows THEN Replace(orig.text, BACKSLASH, "/") ELSE orig.text
GivenStripped ==
    IF EndsWith(GivenText, <<"/">>) THEN SubSeq(GivenText, 1, Len(GivenText) - 1)
    ELSE GivenText

\* The relative path t is normalized: it is ".", or none of its segments is
\* empty or ".", and its ".." segments all come first
Normalized(t) ==
    \/ t = <<".">>
    \/ \A i \in 1..Len(Split(t, "/")) :
           /\ Split(t, "/")[i] \notin {<<>>, <<".">>}
           /\ Split(t, "/")[i] = <<".", ".">> =>
                  \A j \in 1..(i - 1) : Split(t, "/")[j] = <<".", ".">>

\* The message of the first check the argument fails, or "ok"
FirstFailure ==
    IF orig.text = <<>> THEN "Empty path"
    ELSE IF \E i \in 1..Len(orig.text) : orig.text[i] = NUL THEN "Path contains NUL byte"
    ELSE IF orig.text[1] = "/" THEN "Path is not relative"
    ELSE IF ~Normalized(GivenStripped) THEN "Path is not normalized"
    ELSE IF Split(GivenStripped, "/")[1] = <<".", ".">> THEN "Path cannot begin with '..'"
    ELSE "ok"

\* C9: whatever the ruleset, a call of match on a path given as text, or as a
\* Windows path without a root, raises InvalidPathError exactly when the path
\* is empty, holds NUL, begins with "/", is not normalized once one trailing
\* slash is stripped, or begins with the segment ".."; the message is that of
\* the first of these checks that fails, and the error holds the argument as
\* it was passed.  foo/.. and ./foo are not normalized; .., ../ and ../foo
\* cannot begin with "..".
C9_InvalidPath ==
    (Called /\ ~WindowsRooted) =>
        /\ FirstFailure # "ok" => (pc = "done" /\ result = InvalidPathError(FirstFailure, orig))
        /\ FirstFailure = "ok" => result.kind # "InvalidPathError"
        /\ orig.text \in {Under(foo, <<".", ".">>), Under(<<".">>, foo)} =>
               (result.kind = "InvalidPathError" /\ result.msg = "Path is not normalized")
        /\ orig.text \in {<<".", ".">>, <<".", ".", "/">>, Under(<<".", ".">>, foo)} =>
               (result.kind = "InvalidPathError" /\ result.msg = "Path cannot begin with '..'")

\* C9 happens: the empty ruleset raised on ../ and the error holds ../ with
\* its slash
C9_Witness ==
    /\ pc = "done"
    /\ compiled_patterns = <<>>
    /\ orig = StrPath(<<".", ".", "/">>)
    /\ result.kind = "InvalidPathError"
    /\ result.msg = "Path cannot begin with '..'"
    /\ result.path.text = <<".", ".", "/">>

\* C10: once match goes on to pathway() and to its loops, the path it walks is
\* non-empty, NUL-free, relative, separated by "/" alone when it was a Windows
\* path, normalized and without a trailing slash; a Windows path with a root
\* is rejected as not relative and walks no loop.
C10_LoopEntry ==
    /\ pc \in {"pathway", "loop"} =>
           /\ path # <<>>
           /\ ~Contains(path, NUL)
           /\ path[1] # "/"
           /\ Windows => ~Contains(path, BACKSLASH)
           /\ Normalized(path)
           /\ ~EndsWith(path, <<"/">>)
    /\ (Called /\ WindowsRooted) =>
           (pc = "done" /\ result = InvalidPathError("Path is not relative", orig))

\* C11: match terminates on every input. Stated on the finite runs of one
\* call: while pathway() runs, each further parent is strictly shorter than
\* the path it was taken from, so the entries collected so far and the
\* characters still to walk never exceed the length of the path handed to
\* pathway(); in the loops the list of ancestors is no longer than the path,
\* and the two loop positions stay within the ancestors and the rules.
C11_MatchTerminates ==
    /\ pc = "pathway" =>
           /\ Len(pway) + Len(pw_path) <= Len(path)
           /\ pw_path # <<>> => Len(dirname(pw_path)) < Len(pw_path)
    /\ pc = "loop" =>
           /\ Len(pway) <= Len(path)
           /\ p_i \in 1..(Len(pway) + 1)
           /\ pat_i \in 1..(Len(compiled_patterns) + 1)

\* The outcomes of two calls agree: both raise InvalidPathError with the same
\* message (the error carries the argument as given, which differs), or both
\* return None, or both return a Match of the same rule on the same path.
SameOutcome(r1, r2) ==
    IF r1.kind = "InvalidPathError" \/ r2.kind = "InvalidPathError"
    THEN r1.kind = r2.kind /\ r1.msg = r2.msg
    ELSE r1 = r2
\* The call that is over was match(p + "/", either is_dir) and the call before
\* it was match(p, is_dir=True), for a text p that does not end in "/"
SlashAfterDir ==
    /\ pc = "done"
    /\ earlier # NoEarlier
    /\ orig.kind = "str"
    /\ earlier.orig.kind = "str"
    /\ earlier.is_dir
    /\ ~EndsWith(earlier.orig.text, <<"/">>)
    /\ orig.text = Dir(earlier.orig.text)
\* The same two calls in the other order
DirAfterSlash ==
    /\ pc = "done"
    /\ earlier # NoEarlier
    /\ orig.kind = "str"
    /\ earlier.orig.kind = "str"
    /\ is_dir
    /\ ~EndsWith(orig.text, <<"/">>)
    /\ earlier.orig.text = Dir(orig.text)
\* The text p of such a pair of calls
PairText == IF SlashAfterDir THEN earlier.orig.text ELSE orig.text
NoTrailingSlash(r) == r.kind = "Match" => ~EndsWith(r.path, <<"/">>)

\* C12 as stated: for every path p that does not end in "/", match(p + "/")
\* with either is_dir has the same outcome as match(p, is_dir=True), and a
\* returned Match.path never carries the trailing slash.
C12_TrailingSlashIsDir ==
    /\ (SlashAfterDir \/ DirAfterSlash) => SameOutcome(result, earlier.result)
    /\ pc = "done" => NoTrailingSlash(result)

\* C12, amended: the same for every non-empty path p that does not end in
\* "/"; for the empty p, match("/") raises "Path is not relative" and
\* match("", is_dir=True) raises "Empty path".
C12_TrailingSlashIsDirNonEmpty ==
    /\ ((SlashAfterDir \/ DirAfterSlash) /\ PairText # <<>>)
           => SameOutcome(result, earlier.result)
    /\ ((SlashAfterDir \/ DirAfterSlash) /\ PairText = <<>>)
           => {result.msg, earlier.result.msg} = {"Path is not relative", "Empty path"}
    /\ pc = "done" => NoTrailingSlash(result)

\* match("a/") after match("a", is_dir=True) under the rule "a/": both return
\* the Match of that rule on "a"
C12_Witness ==
    /\ SlashAfterDir
    /\ orig.text = <<"a", "/">>
    /\ result.kind = "Match"
    /\ result.pattern_obj.dir_only
    /\ result.path = <<"a">>
    /\ earlier.result = result

\* A direct call of the function fn has returned or raised
Returned(fn) == call.fn = fn
\* The pattern of the call of pattern2regex once its trailing unescaped spaces
\* and tabs are trimmed
Trimmed == trim_trailing_spaces(call.pattern)
IsComment == StartsWith(Trimmed, <<"#">>)
NoRule ==
    \/ Trimmed \in {<<>>, <<"!">>, <<"/">>, <<"!", "/">>}
    \/ IsComment
\* The three patterns of the documentation whose first character is a space
\* or is escaped
OrdinaryPatterns ==
    {<<" ", "#", "c", "o", "m", "m", "e", "n", "t">>,
     <<BACKSLASH, "#", "c", "o", "m", "m", "e", "n", "t">>,
     <<BACKSLASH, "!", "i", "m", "p", "o", "r", "t", "a", "n", "t">>}

\* C13: pattern2regex returns None exactly when the trimmed pattern is empty,
\* begins with "#", or is one of "!", "/" and "!/"; every other pattern yields
\* a Regex or raises InvalidPatternError; " #comment", "\#comment" and
\* "\!important" yield a Regex that is not negative.
C13_NoneExactlyWhenNoRule ==
    Returned("pattern2regex") =>
        /\ ret.kind \in {"None", "Regex", "InvalidPatternError"}
        /\ ret.kind = "None" <=> NoRule
        /\ call.pattern \in OrdinaryPatterns =>
               (ret.kind = "Regex" /\ ~ret.negative /\ ret.pattern = call.pattern)

\* pattern2regex("!/ ") returned None
C13_Witness ==
    /\ Returned("pattern2regex")
    /\ call.pattern = <<"!", "/", " ">>
    /\ ret.kind = "None"

\* The number of backslashes t ends with
TrailingBackslashes(t) ==
    Len(t) - (IF \E i \in 1..Len(t) : t[i] # BACKSLASH
              THEN CHOOSE i \in 1..Len(t) :
                       t[i] # BACKSLASH /\ \A k \in (i + 1)..Len(t) : t[k] = BACKSLASH
              ELSE 0)
\* The character at position i of t is escaped: an odd number of backslashes
\* stands just before it
Escaped(t, i) == TrailingBackslashes(SubSeq(t, 1, i - 1)) % 2 = 1
EndsInUnpairedBackslash(t) == TrailingBackslashes(t) % 2 = 1
\* The positions of the unescaped "[" of t; the first of them opens a class
OpenBrackets(t) == {i \in 1..Len(t) : t[i] = "[" /\ ~Escaped(t, i)}
FirstOpen(t) == CHOOSE i \in OpenBrackets(t) : \A k \in OpenBrackets(t) : i <= k
\* The position of the first item of the class opened at position f of t
FirstItem(t, f) == IF f < Len(t) /\ t[f + 1] \in {"!", "^"} THEN f + 2 ELSE f + 1
\* The first class t opens is never closed: no "]" stands after its first item
OpensUnclosedClass(t) ==
    /\ OpenBrackets(t) # {}
    /\ \A k \in (FirstItem(t, FirstOpen(t)) + 1)..Len(t) : t[k] # "]"
\* Patterns with a range whose left end has the greater code point, with equal
\* ends, and with the smaller one
ReversedRanges ==
    UNION {RangePatterns(e[1], e[2]) : e \in {x \in RangeEnds \X RangeEnds : Ord(x[1]) > Ord(x[2])}}
ProperRanges ==
    UNION {RangePatterns(e[1], e[2]) : e \in {x \in RangeEnds \X RangeEnds : Ord(x[1]) <= Ord(x[2])}}
\* Patterns naming a POSIX class that is not in the table, and one that is
UnknownPosix == UNION {PosixPatterns(name) : name \in {n \in ClassNames : ~IsPosixClass(n)}}
KnownPosix == UNION {PosixPatterns(name) : name \in {n \in ClassNames : IsPosixClass(n)}}
\* The pattern of the call is of one of the four invalid kinds
InvalidKind ==
    \/ EndsInUnpairedBackslash(call.pattern)
    \/ OpensUnclosedClass(call.pattern)
    \/ call.pattern \in ReversedRanges
    \/ call.pattern \in UnknownPosix
Raised == ret = [kind |-> "InvalidPatternError", pattern |-> call.pattern]

\* C14 as stated: pattern2regex raises InvalidPatternError carrying the
\* original untrimmed pattern for every pattern that ends in an unpaired
\* backslash, opens a class that is never closed, holds a range whose left
\* end is the greater, or names an unknown POSIX class, with ignorecase too;
\* a range with equal ends is valid.
C14_InvalidPatterns ==
    Returned("pattern2regex") =>
        /\ InvalidKind => Raised
        /\ (call.pattern \in (ProperRanges \cup KnownPosix)) => ret.kind = "Regex"

\* C14, amended: the same for every pattern that is not a comment; a pattern
\* beginning with "#" is not translated and returns None whatever follows.
C14_InvalidPatternsButComments ==
    Returned("pattern2regex") =>
        /\ (InvalidKind /\ ~IsComment) => Raised
        /\ (call.pattern \in (ProperRanges \cup KnownPosix) /\ ~IsComment) => ret.kind = "Regex"
        /\ IsComment => ret.kind = "None"

\* pattern2regex("![c[:XDIGIT:]]/", ignorecase=True) raised with the pattern
C14_Witness ==
    /\ Returned("pattern2regex")
    /\ call.ignorecase
    /\ call.pattern = Bracketed(<<"!">>, <<>>, <<"c">> \o Colons(<<"X", "D", "I", "G", "I", "T">>), <<"/">>)
    /\ Raised

\* C15 as stated: any pattern with an embedded NUL fails pattern2regex with
\* InvalidPatternError, wherever the NUL stands.
C15_NulIsInvalid ==
    (Returned("pattern2regex") /\ Contains(call.pattern, NUL)) => Raised

\* C15, amended: any pattern with an embedded NUL that is not a comment fails
\* with InvalidPatternError, wherever the NUL stands; a pattern beginning
\* with "#" returns None, NUL or not.
C15_NulIsInvalidButComments ==
    (Returned("pattern2regex") /\ Contains(call.pattern, NUL)) =>
        IF IsComment THEN ret.kind = "None" ELSE Raised

\* pattern2regex on "[a", NUL, "]" raised
C15_Witness ==
    /\ Returned("pattern2regex")
    /\ call.pattern = <<"[", "a", NUL, "]">>
    /\ Raised

\* A "/" of t stands directly after a backslash that escapes it
EscapedSlash(t) == \E i \in 1..Len(t) : t[i] = "/" /\ Escaped(t, i)
\* The trimmed pattern ends in an escaped "/"
EndsInEscapedSlash(t) == t # <<>> /\ t[Len(t)] = "/" /\ Escaped(t, Len(t))
foo_bs_slash == foo \o <<BACKSLASH, "/">>
foo_bs_slash_bar == foo \o <<BACKSLASH, "/">> \o bar

\* C16 as stated: pattern2regex rejects with InvalidPatternError "foo\/" and
\* every other pattern in which an escaping backslash is directly followed by
\* "/", such as "foo\/bar".
C16_EscapedSlashRejected ==
    (Returned("pattern2regex") /\ EscapedSlash(call.pattern)) => Raised

\* C16, amended: pattern2regex rejects "foo\/" and every other pattern, not a
\* comment, that ends in an escaped "/" once its trailing blanks are trimmed:
\* the trailing "/" is taken off as the directory marker and leaves an
\* unpaired backslash. An escaped "/" elsewhere is accepted as a literal "/":
\* "foo\/bar" is a valid pattern that matches the path "foo/bar" and not
\* "quux/foo/bar".
C16_TrailingEscapedSlashRejected ==
    Returned("pattern2regex") =>
        /\ (EndsInEscapedSlash(Trimmed) /\ ~IsComment) => Raised
        /\ call.pattern = foo_bs_slash => Raised
        /\ call.pattern = foo_bs_slash_bar =>
               /\ ret.kind = "Regex"
               /\ fullmatch(ret.regex, Under(foo, bar))
               /\ ~fullmatch(ret.regex, Under(quux, Under(foo, bar)))
               /\ ~fullmatch(ret.regex, foo_bs_slash_bar)

\* pattern2regex("foo\/ ") raised
C16_Witness ==
    /\ Returned("pattern2regex")
    /\ call.pattern = foo_bs_slash \o <<" ">>
    /\ Raised

\* The length of the run of spaces and tabs s ends with
TrailingBlanks(s) ==
    Len(s) - (IF \E i \in 1..Len(s) : ~IsBlank(s[i])
              THEN CHOOSE i \in 1..Len(s) :
                       ~IsBlank(s[i]) /\ \A k \in (i + 1)..Len(s) : IsBlank(s[k])
              ELSE 0)
\* s without that run
BeforeBlanks(s) == SubSeq(s, 1, Len(s) - TrailingBlanks(s))
\* What is to be left of s: the run goes, but for its first blank when an
\* unpaired backslash escapes it
TrimmedOf(s) ==
    IF TrailingBlanks(s) > 0 /\ EndsInUnpairedBackslash(BeforeBlanks(s))
    THEN SubSeq(s, 1, Len(BeforeBlanks(s)) + 1)
    ELSE BeforeBlanks(s)
IsPrefix(t, s) == Len(t) <= Len(s) /\ t = SubSeq(s, 1, Len(t))
EndsInUnescapedBlank(t) == t # <<>> /\ IsBlank(t[Len(t)]) /\ ~Escaped(t, Len(t))
trailing == <<"t", "r", "a", "i", "l", "i", "n", "g">>

\* C17: trim_trailing_spaces removes the trailing run of spaces and tabs,
\* except that a blank escaped by an unpaired backslash is kept with that
\* backslash and pairs of backslashes are kept; the result is a prefix of the
\* input that does not end in an unescaped blank; the four examples; the
\* pattern "trailing " matches the path "trailing" and "trailing\ " matches
\* "trailing ".
C17_TrimTrailingSpaces ==
    /\ Returned("trim_trailing_spaces") =>
           /\ ret.text = TrimmedOf(call.s)
           /\ IsPrefix(ret.text, call.s)
           /\ ~EndsInUnescapedBlank(ret.text)
           /\ call.s = foo \o <<" ", " ">> => ret.text = foo
           /\ call.s = foo \o <<BACKSLASH, " ", " ">> => ret.text = foo \o <<BACKSLASH, " ">>
           /\ call.s = foo \o <<BACKSLASH, BACKSLASH, " ">> => ret.text = foo \o <<BACKSLASH, BACKSLASH>>
           /\ call.s = foo \o <<" ", BACKSLASH, " ">> => ret.text = call.s
    /\ (Returned("pattern2regex") /\ call.pattern = trailing \o <<" ">>) =>
           /\ ret.kind = "Regex"
           /\ ret.pattern = trailing
           /\ fullmatch(ret.regex, trailing)
           /\ ~fullmatch(ret.regex, trailing \o <<" ">>)
    /\ (Returned("pattern2regex") /\ call.pattern = trailing \o <<BACKSLASH, " ">>) =>
           /\ ret.kind = "Regex"
           /\ ret.pattern = call.pattern
           /\ fullmatch(ret.regex, trailing \o <<" ">>)
           /\ ~fullmatch(ret.regex, trailing)

\* trim_trailing_spaces("foo\  ") returned "foo\ "
C17_Witness ==
    /\ Returned("trim_trailing_spaces")
    /\ call.s = foo \o <<BACKSLASH, " ", " ">>
    /\ ret.text = foo \o <<BACKSLASH, " ">>

\* C18: trimming is idempotent: trimming what trim_trailing_spaces returned
\* gives it back unchanged, whatever the mix of backslashes, spaces and tabs.
C18_TrimIdempotent ==
    Returned("trim_trailing_spaces") => trim_trailing_spaces(ret.text) = ret.text

\* trim_trailing_spaces returned a string that still ends in an (escaped)
\* tab, shorter than its argument
C18_Witness ==
    /\ Returned("trim_trailing_spaces")
    /\ Len(ret.text) < Len(call.s)
    /\ ret.text # <<>>
    /\ ret.text[Len(ret.text)] = TAB

\* What is to be left of s: one line ending "\r\n", "\n" or "\r" removed
WithoutLineEnding(s) ==
    IF EndsWith(s, <<CR, LF>>) THEN SubSeq(s, 1, Len(s) - 2)
    ELSE IF EndsWith(s, <<LF>>) \/ EndsWith(s, <<CR>>) THEN SubSeq(s, 1, Len(s) - 1)
    ELSE s
foobar == foo \o bar

\* C19: chomp strips exactly one "\n", "\r" or "\r\n" line ending and nothing
\* else ("foobar\n\n" and "foobar\n\r" both give "foobar\n"); compile chomps
\* each element before trimming, so "foo\n", "foo\r", "foo\r\n" and
\* "foo \r\n" all compile to the rule whose pattern is "foo".
C19_Chomp ==
    /\ Returned("chomp") =>
           /\ ret.text = WithoutLineEnding(call.s)
           /\ call.s \in {foobar \o <<LF, LF>>, foobar \o <<LF, CR>>} => ret.text = foobar \o <<LF>>
    /\ \A k \in 1..4 :
           (n_done >= k /\ patterns[k] \in {foo \o <<LF>>, foo \o <<CR>>, foo \o <<CR, LF>>,
                                            foo \o <<" ", CR, LF>>}) =>
               /\ Len(compiled_patterns) >= k
               /\ compiled_patterns[k].pattern = foo
               /\ compiled_patterns[k] = compiled_patterns[1]

\* compile is over: the four elements "foo\n", "foo\r", "foo\r\n" and
\* "foo \r\n" gave four rules of pattern "foo"; and chomp("foobar\n\r")
\* returned "foobar\n"
C19_Witness ==
    /\ pc = "ready"
    /\ SubSeq(patterns, 1, 4) = <<foo \o <<LF>>, foo \o <<CR>>, foo \o <<CR, LF>>, foo \o <<" ", CR, LF>> >>
    /\ \A k \in 1..4 : compiled_patterns[k].pattern = foo
    /\ Returned("chomp")
    /\ call.s = foobar \o <<LF, CR>>
    /\ ret.text = foobar \o <<LF>>

StillEndsLine(t) == EndsWith(t, <<LF>>) \/ EndsWith(t, <<CR>>)

\* C20 as stated: chomp is idempotent, chomp(chomp(s)) = chomp(s) for every
\* string s, and chomp(s) drops at most two characters from s.
C20_ChompIdempotent ==
    Returned("chomp") =>
        /\ chomp(ret.text) = ret.text
        /\ Len(call.s) - Len(ret.text) <= 2

\* C20, amended: chomp(chomp(s)) = chomp(s) exactly for the strings s whose
\* chomp(s) no longer ends in "\n" or "\r", that is for those with a single
\* line ending or none; chomp(s) is a prefix of s with at most two characters
\* dropped, and so is chomp(chomp(s)) of chomp(s).
C20_ChompIdempotentOnOneLineEnding ==
    Returned("chomp") =>
        /\ chomp(ret.text) = ret.text <=> ~StillEndsLine(ret.text)
        /\ IsPrefix(ret.text, call.s)
        /\ Len(call.s) - Len(ret.text) <= 2
        /\ IsPrefix(chomp(ret.text), ret.text)

\* chomp("a\r\n") returned "a", which chomp leaves unchanged
C20_Witness ==
    /\ Returned("chomp")
    /\ call.s = <<"a", CR, LF>>
    /\ ret.text = <<"a">>
    /\ chomp(ret.text) = ret.text

\* The first k segments of the path q, joined by "/"
PrefixOf(q, k) == Join(SubSeq(Split(q, "/"), 1, k), "/")
\* The list pathway(path) has returned to match
PathwayOver == pc \in {"loop", "done"} /\ (pc = "done" => result.kind \in {"Match", "None"} /\ path # CURDIR)

\* C21: pathway is total and returns the slash-separated prefixes of its
\* argument: while it runs, what is left of the path gets shorter at every
\* step, so it ends; the list it returns has one element per segment of the
\* path, the k-th being the first k segments, shallowest first, strictly
\* increasing in length and ending in the path itself; "foo/bar/baz/quux"
\* gives foo, foo/bar, foo/bar/baz, foo/bar/baz/quux.
C21_PathwayPrefixes ==
    /\ pc = "pathway" =>
           /\ Len(pway) + Len(pw_path) <= Len(path)
           /\ pw_path # <<>> => Len(dirname(pw_path)) < Len(pw_path)
           /\ \A k \in 1..Len(pway) : IsPrefix(pway[k], path)
    /\ PathwayOver =>
           /\ Len(pway) = Len(Split(path, "/"))
           /\ \A k \in 1..Len(pway) : pway[k] = PrefixOf(path, k)
           /\ \A k \in 1..(Len(pway) - 1) : Len(pway[k]) < Len(pway[k + 1])
           /\ pway # <<>> /\ pway[Len(pway)] = path
           /\ path = Under(foo, Under(bar, Under(<<"b", "a", "z">>, quux))) =>
                  pway = <<foo, Under(foo, bar), Under(foo, Under(bar, <<"b", "a", "z">>)), path>>

\* The call that is over is on the Gitignore compiled with ignorecase=True,
\* and the call before it was the same call on the Gitignore compiled from
\* the same patterns with ignorecase=False
SameCallIgnoringCase ==
    /\ pc = "done"
    /\ earlier # NoEarlier
    /\ ignorecase
    /\ ~earlier.ignorecase
    /\ orig = earlier.orig
    /\ is_dir = earlier.is_dir
\* The pattern q is negated, or holds the start of a negated character class
Negating(q) ==
    \/ StartsWith(q, <<"!">>)
    \/ \E i \in 1..(Len(q) - 1) : q[i] = "[" /\ q[i + 1] \in {"!", "^"}

\* C22 as stated: for every list of patterns and every path, if the match on
\* the Gitignore compiled with ignorecase=False is truthy, then the match on
\* the one compiled with ignorecase=True is truthy as well.
C22_IgnorecaseKeepsDecision ==
    (SameCallIgnoringCase /\ Truthy(earlier.result)) => Truthy(result)

\* C22, amended: the same for every list of patterns none of which is negated
\* or holds a negated character class. A negated rule or class matches more
\* under ignorecase and can take the decision away: "[^a]" ignores A only
\* without ignorecase, and "*", "!A" ignores a only without ignorecase.
C22_IgnorecaseKeepsPositiveDecision ==
    /\ (SameCallIgnoringCase /\ Truthy(earlier.result)
            /\ \A k \in 1..Len(patterns) : ~Negating(patterns[k]))
           => Truthy(result)
    /\ (SameCallIgnoringCase /\ orig.text = <<"A">>
            /\ patterns \in {<< <<"[", "^", "a", "]">> >>, << <<"*">>, <<"!", "a">> >>})
           => (Truthy(earlier.result) /\ ~Truthy(result))

\* match("A/b") on the rule A/b is truthy on the Gitignore compiled without
\* ignorecase and on the one compiled with it
C22_Witness ==
    /\ SameCallIgnoringCase
    /\ patterns = << <<"A", "/", "b">> >>
    /\ orig.text = <<"A", "/", "b">>
    /\ Truthy(earlier.result)
    /\ Truthy(result)

\* The trimmed pattern of the call without its leading "!"
Unbanged == IF StartsWith(Trimmed, <<"!">>) THEN Tail(Trimmed) ELSE Trimmed

\* C23: for every pattern that translates to a Regex, negative is true iff
\* the trimmed pattern begins with "!", dir_only iff the trimmed pattern
\* without that "!" ends in "/", and the pattern field is the input with only
\* its trailing blanks trimmed, "!" and "/" kept; on compile(["foo ", "!bar"])
\* the match of bar reports the pattern "!bar" and the match of foo "foo".
C23_RegexFields ==
    /\ (Returned("pattern2regex") /\ ret.kind = "Regex") =>
           /\ ret.negative <=> StartsWith(Trimmed, <<"!">>)
           /\ ret.dir_only <=> EndsWith(Unbanged, <<"/">>)
           /\ ret.pattern = Trimmed
           /\ ret.ignorecase = call.ignorecase
    /\ (pc = "done" /\ result.kind = "Match") =>
           \E k \in 1..Len(patterns) :
               /\ result.pattern_obj.pattern = trim_trailing_spaces(patterns[k])
               /\ result.pattern_obj.negative <=> StartsWith(patterns[k], <<"!">>)
    /\ (pc = "done" /\ patterns = <<foo \o <<" ">>, Bang(bar)>>) =>
           /\ orig.text \in {bar, Dir(bar)} =>
                  (result.kind = "Match" /\ result.pattern_obj.pattern = Bang(bar)
                       /\ result.path = bar /\ ~Truthy(result))
           /\ orig.text \in {foo, Dir(foo), Under(foo, bar)} =>
                  (result.kind = "Match" /\ result.pattern_obj.pattern = foo
                       /\ result.path = foo /\ Truthy(result))
           /\ orig.text = quux => result = ReturnNone

\* On compile(["foo ", "!bar"]) the match of bar reported "!bar", and
\* pattern2regex("!a/") returned a negative dir-only Regex of that pattern
C23_Witness ==
    /\ pc = "done"
    /\ orig.text = bar
    /\ result.kind = "Match"
    /\ result.pattern_obj.pattern = Bang(bar)
    /\ Returned("pattern2regex")
    /\ call.pattern = <<"!", "a", "/">>
    /\ ret.kind = "Regex"
    /\ ret.negative /\ ret.dir_only

\* The ruleset compiled from the single pattern "*"
StarOnly == patterns = << <<"*">> >>
\* The argument is a valid path: none of the checks of match fails on it, and
\* it is no Windows path with a root
ValidPath == FirstFailure = "ok" /\ ~WindowsRooted

\* C24: for every valid path that is not ".", the ruleset compiled from "*"
\* returns an affirmative Match, for a file and for a directory alike: the
\* Match of the rule "*" on the first segment of the path.
C24_StarIgnoresAll ==
    (pc = "done" /\ StarOnly /\ ValidPath /\ GivenStripped # <<".">>) =>
        /\ result.kind = "Match"
        /\ Truthy(result)
        /\ result.pattern_obj.pattern = <<"*">>
        /\ result.path = Split(GivenStripped, "/")[1]

\* match(".a/a", is_dir=False) on the ruleset "*" returned the truthy Match
\* on .a
C24_Witness ==
    /\ pc = "done"
    /\ StarOnly
    /\ orig = StrPath(<<".", "a", "/", "a">>)
    /\ ~is_dir
    /\ Truthy(result)
    /\ result.path = <<".", "a">>

\* Some rule of the ruleset matches the string "."
RuleMatchesDot == \E k \in 1..Len(compiled_patterns) : fullmatch(compiled_patterns[k].regex, <<".">>)

\* C25: for every ruleset, match(".") and match("./") return None without
\* raising and without walking the path, also when a rule such as "*", ".",
\* ".*" or "[[:punct:]]" matches the string ".".
C25_NothingAtCurdir ==
    (Called /\ GivenText \in {<<".">>, <<".", "/">>}) =>
        /\ pc = "done"
        /\ result = ReturnNone
        /\ pway = <<>>

\* match("./") returned None on a ruleset whose rule matches "."
C25_Witness ==
    /\ pc = "done"
    /\ orig = StrPath(<<".", "/">>)
    /\ patterns = << <<"[", "[", ":", "p", "u", "n", "c", "t", ":", "]", "]">> >>
    /\ RuleMatchesDot
    /\ result = ReturnNone

\* compile([q]) is over and pattern2regex(q) has returned, q being the pattern
\* of the call
CompiledAndTranslated ==
    /\ pc = "ready"
    /\ Returned("pattern2regex")
    /\ patterns = <<call.pattern>>
    /\ call.ignorecase = ignorecase

\* C26: for every pattern q, if pattern2regex(q) returns None then
\* compile([q]) yields an empty ruleset, the chomp of compile notwithstanding.
C26_NoneCompilesToNothing ==
    (CompiledAndTranslated /\ ret.kind = "None") => compiled_patterns = <<>>

\* pattern2regex("#\r\n") returned None and compile of it gave no rule
C26_Witness ==
    /\ CompiledAndTranslated
    /\ call.pattern = <<"#", CR, LF>>
    /\ ret.kind = "None"
    /\ compiled_patterns = <<>>

\* The two calls of match on one Gitignore, as records
FirstCall == [orig |-> earlier.orig, is_dir |-> earlier.is_dir, result |-> earlier.result]
SecondCall == [orig |-> orig, is_dir |-> is_dir, result |-> result]
BothCalled == pc = "done" /\ earlier # NoEarlier
\* The call c was match(d, is_dir=True) for a text d that does not end in "/"
\* and it returned a truthy Match; the call b was on a text d + "/" + q
IgnoredDirAbove(c, b) ==
    /\ c.orig.kind = "str"
    /\ b.orig.kind = "str"
    /\ c.is_dir
    /\ ~EndsWith(c.orig.text, <<"/">>)
    /\ Truthy(c.result)
    /\ StartsWith(b.orig.text, Dir(c.orig.text))
\* The q of such a pair of calls
BelowDir(c, b) == SubSeq(b.orig.text, Len(c.orig.text) + 2, Len(b.orig.text))
RelativeNormalized(q) == ~isabs(q) /\ normpath(q) = q
\* A relative normalized q that is not ".", does not begin with the segment
\* ".." and holds no NUL
PlainRelativeNormalized(q) ==
    /\ RelativeNormalized(q)
    /\ q # <<".">>
    /\ Split(q, "/")[1] # <<".", ".">>
    /\ ~Contains(q, NUL)
\* The call b was decided as the call c: a truthy Match of the same rule on
\* the same path
DecidedAs(c, b) ==
    /\ b.result.kind = "Match"
    /\ Truthy(b.result)
    /\ b.result.pattern_obj = c.result.pattern_obj
    /\ b.result.path = c.result.path

\* C27 as stated: for every ruleset and every directory path d, if
\* match(d, is_dir=True) is truthy then match(d + "/" + q) is truthy for every
\* relative normalized q and either is_dir, with the same deciding rule and
\* the same Match.path as the match on d.
C27_BelowIgnoredDir ==
    BothCalled =>
        /\ (IgnoredDirAbove(FirstCall, SecondCall)
              /\ RelativeNormalized(BelowDir(FirstCall, SecondCall)))
               => DecidedAs(FirstCall, SecondCall)
        /\ (IgnoredDirAbove(SecondCall, FirstCall)
              /\ RelativeNormalized(BelowDir(SecondCall, FirstCall)))
               => DecidedAs(SecondCall, FirstCall)

\* C27, amended: the same for every relative normalized q other than "." that
\* does not begin with ".." and holds no NUL; for the other relative
\* normalized q the call on d + "/" + q raises InvalidPathError.
C27_BelowIgnoredDirPlain ==
    BothCalled =>
        /\ IgnoredDirAbove(FirstCall, SecondCall) =>
               /\ PlainRelativeNormalized(BelowDir(FirstCall, SecondCall))
                      => DecidedAs(FirstCall, SecondCall)
               /\ (RelativeNormalized(BelowDir(FirstCall, SecondCall))
                     /\ ~PlainRelativeNormalized(BelowDir(FirstCall, SecondCall)))
                      => result.kind = "InvalidPathError"
        /\ IgnoredDirAbove(SecondCall, FirstCall) =>
               /\ PlainRelativeNormalized(BelowDir(SecondCall, FirstCall))
                      => DecidedAs(SecondCall, FirstCall)
               /\ (RelativeNormalized(BelowDir(SecondCall, FirstCall))
                     /\ ~PlainRelativeNormalized(BelowDir(SecondCall, FirstCall)))
                      => earlier.result.kind = "InvalidPathError"

\* match("a/a", is_dir=False) after match("a", is_dir=True) under the rules
\* "a/", "!a/a": both return the Match of "a/" on "a", the negation of a/a
\* notwithstanding
C27_Witness ==
    /\ BothCalled
    /\ IgnoredDirAbove(FirstCall, SecondCall)
    /\ patterns = << <<"a", "/">>, <<"!", "a", "/", "a">> >>
    /\ earlier.orig.text = <<"a">>
    /\ orig.text = <<"a", "/", "a">>
    /\ ~is_dir
    /\ result.pattern_obj.dir_only
    /\ result.path = <<"a">>
    /\ DecidedAs(FirstCall, SecondCall)

\* Both Gitignores were asked about the same path with the same is_dir
SamePathAsked == BothCalled /\ orig = earlier.orig /\ is_dir = earlier.is_dir
\* The first Gitignore was compiled from [q] and the second from [r]
Compared(q, r) == SamePathAsked /\ earlier.patterns = <<q>> /\ patterns = <<r>>
\* The second Gitignore was compiled from [X], X without a slash, and the
\* first from ["**/" + X]
TailCompared ==
    /\ SamePathAsked
    /\ ~Contains(patterns[1], "/")
    /\ earlier.patterns = <<Under(globstar, patterns[1])>>
\* Two outcomes are the same decision: both None, or both a Match on the same
\* path, both negated or neither
SameDecision(r1, r2) ==
    /\ r1.kind = r2.kind
    /\ r1.kind = "Match" =>
           /\ r1.path = r2.path
           /\ r1.pattern_obj.negative = r2.pattern_obj.negative
\* foo/**/**/bar against foo/**/bar, and **/**/foo against **/foo
RunsCollapse ==
    /\ (\/ Compared(Under(foo, Under(globstar, Under(globstar, bar))),
                    Under(foo, Under(globstar, bar)))
        \/ Compared(Under(globstar, Under(globstar, foo)), Under(globstar, foo)))
           => SameDecision(earlier.result, result)
    /\ (/\ Compared(Under(foo, Under(globstar, Under(globstar, bar))),
                    Under(foo, Under(globstar, bar)))
        /\ orig.text \in {Under(foo, bar), Under(foo, Under(baz, bar)),
                          Under(foo, Under(gnusto, Under(cleesh, bar)))})
           => (Truthy(earlier.result) /\ Truthy(result) /\ result.path = orig.text)
\* X is a pattern of its own: not empty once its line ending and its trailing
\* blanks are removed, and it begins with neither "!" nor "#"
PlainTail(X) ==
    /\ trim_trailing_spaces(chomp(X)) # <<>>
    /\ X[1] \notin {"!", "#"}

\* C28 as stated: for every path, foo/**/**/bar decides as foo/**/bar (both
\* match foo/bar, foo/baz/bar and foo/gnusto/cleesh/bar), **/**/foo decides as
\* **/foo, and **/X decides as X whenever X contains no slash.
C28_GlobstarsCollapse ==
    /\ RunsCollapse
    /\ TailCompared => SameDecision(earlier.result, result)

\* C28, amended: the same, **/X deciding as X whenever X contains no slash,
\* does not begin with "!" or "#" and is not empty once its line ending and
\* its trailing spaces and tabs are removed.
C28_GlobstarsCollapsePlain ==
    /\ RunsCollapse
    /\ (TailCompared /\ PlainTail(patterns[1])) => SameDecision(earlier.result, result)

\* foo/**/bar after foo/**/**/bar, both asked about foo/gnusto/cleesh/bar and
\* both returning a truthy Match on it
C28_Witness ==
    /\ Compared(Under(foo, Under(globstar, Under(globstar, bar))), Under(foo, Under(globstar, bar)))
    /\ orig.text = Under(foo, Under(gnusto, Under(cleesh, bar)))
    /\ Truthy(earlier.result)
    /\ Truthy(result)
    /\ result.path = orig.text
    /\ earlier.result.pattern_obj.regex = result.pattern_obj.regex

=============================================================================
